---- MODULE Spec2Model ----
(***************************************************************************)
(* Alert-to-incident pipeline and chat stream of the incident-triage       *)
(* backend: webhook intake with deduplication, the process_alert worker    *)
(* with time-window grouping, the incident status endpoint, and the        *)
(* server-sent-event stream of the chat endpoint.                          *)
(***************************************************************************)
EXTENDS Integers, Sequences, FiniteSets, TLC

\* ------------------------------------------------------------- bounds
\* Number of webhook deliveries (HTTP requests) in a behaviour.
MaxRequests == 2
\* Last value of the wall clock (minutes).
MaxTime == 1
\* Longest delta sequence the chat generator produces.
MaxDeltas == 2
\* Celery workers running process_alert at the same time.
MaxWorkers == 2
\* Alerts committed by intake when the worker pool starts.
MaxAlerts == 3

\* ---------------------------------------------------------- constants
\* Grouping window in minutes: timedelta(minutes=5).
W == 5
\* SQL NULL / Python None of an integer or timestamp column.
NULL == -1
\* Python None of a string column or payload field.
NONE == "none"

Sources == {"datadog", "sentry"}
ExternalIds == {"A1"}
\* last_updated / timestamp values a payload may carry (minutes); NULL is an
\* absent field. W and W + 1 put an alert exactly at and just past the window
\* of an incident created at minute 0.
PayloadTimes == {NULL, W, W + 1}
Services == {"api"}
Requests == 1..MaxRequests

\* IncidentStatus enum
OPEN == "open"
INVESTIGATING == "investigating"
RESOLVED == "resolved"
CLOSED == "closed"
IncidentStatus == {OPEN, INVESTIGATING, RESOLVED, CLOSED}

VARIABLES
    alerts,      \* table alerts: sequence of rows, id = index
    incidents,   \* table incidents: sequence of rows, id = index
    actions,     \* table incident_actions: per incident id, its rows in id order
    queue,       \* broker: alert id -> number of queued process_alert tasks
    reqs,        \* webhook requests on the HTTP plane
    patchResp,   \* response to the last PATCH /incidents/{id}/status
    now,         \* wall clock
    chat,        \* one chat stream: generator input, position, emitted events
    tasks,       \* worker pool: per worker, the process_alert run it executes
    summ,        \* one POST /incidents/{id}/summarize: position, session, response
    retr         \* the last retrieval call: its arguments, the rows, the result

pipelineVars == <<alerts, incidents, actions, queue, reqs, patchResp, now, tasks, summ, retr>>
vars == <<alerts, incidents, actions, queue, reqs, patchResp, now, chat, tasks, summ, retr>>

AlertIds == 1..Len(alerts)
IncidentIds == 1..Len(incidents)

\* ------------------------------------------------------ webhook intake
\* A delivery: signature check result, JSON parse result, payload fields.
Deliveries ==
    [sig_ok : {TRUE}, json_ok : {TRUE}, id : ExternalIds \cup {NONE},
     last_updated : PayloadTimes]
    \cup [sig_ok : {FALSE}, json_ok : {TRUE}, id : {"A1"}, last_updated : {NULL}]
    \cup [sig_ok : {TRUE}, json_ok : {FALSE}, id : {NONE}, last_updated : {NULL}]

IdleReq == [pc |-> "idle", source |-> NONE, external_id |-> NONE,
            timestamp |-> NULL, code |-> NULL, alert_id |-> NULL]

\* _parse_datadog_alert / _parse_sentry_alert: the timestamp is the payload's,
\* or the current time when the field is absent.
ParseTimestamp(d) == IF d.last_updated = NULL THEN now ELSE d.last_updated

\* db.query(Alert).filter(source == src, external_id == ext).first()
ExistingAlert(src, ext) ==
    IF \E a \in AlertIds : alerts[a].source = src /\ alerts[a].external_id = ext
    THEN CHOOSE a \in AlertIds : alerts[a].source = src /\ alerts[a].external_id = ext
    ELSE NULL

\* process_alert.delay(alert.id)
Enqueue(a) == [queue EXCEPT ![a] = @ + 1]

Respond(r, code, a) ==
    [reqs EXCEPT ![r].pc = "done", ![r].code = code, ![r].alert_id = a,
                 ![r].timestamp = NULL]

\* The handler up to and including the duplicate check of the processor.
\* Requests are numbered in the order they arrive.
WebhookBegin(r, src, d) ==
    /\ reqs[r].pc = "idle"
    /\ \A q \in Requests : q < r => reqs[q].pc # "idle"
    /\ IF ~d.sig_ok
       THEN /\ reqs' = Respond(r, 401, NULL)
            /\ UNCHANGED <<alerts, queue>>
       ELSE IF ~d.json_ok \/ d.id = NONE
       THEN /\ reqs' = Respond(r, 400, NULL)
            /\ UNCHANGED <<alerts, queue>>
       ELSE IF ExistingAlert(src, d.id) # NULL
       THEN /\ queue' = Enqueue(ExistingAlert(src, d.id))
            /\ reqs' = [Respond(r, 200, ExistingAlert(src, d.id)) EXCEPT
                          ![r].source = src, ![r].external_id = d.id]
            /\ UNCHANGED alerts
       ELSE /\ reqs' = [reqs EXCEPT ![r] = [pc |-> "insert", source |-> src,
                           external_id |-> d.id, timestamp |-> ParseTimestamp(d),
                           code |-> NULL, alert_id |-> NULL]]
            /\ UNCHANGED <<alerts, queue>>
    /\ UNCHANGED <<incidents, actions, patchResp, now, chat, tasks, summ, retr>>

\* The alerts table without its unique constraint.
UniqueViolationDropped(src, ext) == FALSE

\* UniqueConstraint("source", "external_id"): the INSERT fails when a row with
\* the same natural key has been committed.
UniqueViolation(src, ext) ==
    \E a \in AlertIds : alerts[a].source = src /\ alerts[a].external_id = ext

NewAlert(src, ext, ts) ==
    [source |-> src, external_id |-> ext, alert_timestamp |-> ts,
     severity |-> NONE, predicted_team |-> NONE, confidence_score |-> NULL,
     classification_source |-> NONE,
     service_name |-> NONE, incident_id |-> NULL,
     tag_service |-> NONE, entity_source |-> NONE, entity_sources |-> NONE]

\* db.add(alert); db.commit(); then process_alert.delay and the 200 response,
\* or the IntegrityError caught as Exception: rollback and 500.
WebhookCommit(r) ==
    /\ reqs[r].pc = "insert"
    /\ IF UniqueViolation(reqs[r].source, reqs[r].external_id)
       THEN /\ reqs' = Respond(r, 500, NULL)
            /\ UNCHANGED <<alerts, queue>>
       ELSE /\ alerts' = Append(alerts,
                  NewAlert(reqs[r].source, reqs[r].external_id, reqs[r].timestamp))
            /\ queue' = Enqueue(Len(alerts) + 1)
            /\ reqs' = Respond(r, 200, Len(alerts) + 1)
    /\ UNCHANGED <<incidents, actions, patchResp, now, chat, tasks, summ, retr>>

\* The same handler when the broker is unreachable: the processor has
\* committed the alert, process_alert.delay raises, the except Exception
\* branch rolls back a session with nothing pending and answers 500.
WebhookPublishFails(r) ==
    /\ reqs[r].pc = "insert"
    /\ ~UniqueViolation(reqs[r].source, reqs[r].external_id)
    /\ alerts' = Append(alerts,
          NewAlert(reqs[r].source, reqs[r].external_id, reqs[r].timestamp))
    /\ queue' = queue
    /\ reqs' = Respond(r, 500, NULL)
    /\ UNCHANGED <<incidents, actions, patchResp, now, chat, tasks, summ, retr>>

\* ------------------------------------------------------------- worker
\* Outcome of POST /classify: a severity the service answers, or "fail" for
\* any RequestException, KeyError or ValueError.
ClassifyResults == {"fail", "critical"}
\* service_name in the answer of POST /extract-entities (NONE: the answer
\* names no service), or EXTRACT_FAIL for a RequestException or KeyError.
EntityResults == Services \cup {NONE}
EXTRACT_FAIL == "extract_fail"

\* _apply_fallback_entities for service_name: the tag fills the field only
\* when the alert has none; the result is the field and whether it was filled.
ApplyFallbackEntities(alert) ==
    IF alert.service_name = NONE /\ alert.tag_service # NONE
    THEN [service_name |-> alert.tag_service, updated |-> "tags"]
    ELSE [service_name |-> alert.service_name, updated |-> NONE]

\* _summarize_entity_source over the provenance of the one modelled field.
SummarizeEntitySource(sources) == IF sources = NONE THEN "unknown" ELSE sources

\* Entity extraction block of process_alert. On an answer the field is reset
\* from the answer before the fallback runs; in the except branch the
\* fallback runs on the alert as loaded.
ExtractEntities(alert, ext) ==
    LET base == IF ext = EXTRACT_FAIL THEN alert
                ELSE [alert EXCEPT !.service_name = ext]
        fb == ApplyFallbackEntities(base)
        prov == IF ext # EXTRACT_FAIL /\ ext # NONE THEN "ml" ELSE fb.updated
    IN  [base EXCEPT !.service_name = fb.service_name,
                     !.entity_sources = prov,
                     !.entity_source = SummarizeEntitySource(prov)]

\* A confidence the classifier answers, in percent (the fallback's is 0.0).
ClassifierConfidence == 90

\* Classification block of process_alert, with the fallback defaults.
Classify(alert, cls) ==
    IF cls = "fail"
    THEN [alert EXCEPT !.severity = "warning", !.predicted_team = "backend",
                       !.confidence_score = 0,
                       !.classification_source = "fallback_rule"]
    ELSE [alert EXCEPT !.severity = cls, !.predicted_team = "platform",
                       !.confidence_score = ClassifierConfidence,
                       !.classification_source = "rule"]

\* The grouping query with a strict comparison on created_at.
RecentIncidentsExclusive(ts) ==
    {i \in IncidentIds :
        /\ incidents[i].status \in {OPEN, INVESTIGATING}
        /\ incidents[i].created_at > ts - W}

\* The grouping query without its status filter.
RecentIncidentsAnyStatus(ts) ==
    {i \in IncidentIds : incidents[i].created_at >= ts - W}

\* Incidents the grouping query selects for an alert timestamp: status open or
\* investigating, created_at >= alert_timestamp - 5 minutes.
RecentIncidents(ts) ==
    {i \in IncidentIds :
        /\ incidents[i].status \in {OPEN, INVESTIGATING}
        /\ incidents[i].created_at >= ts - W}

\* The candidate rows in no particular order.
MostRecentUnordered(S) == S

\* order_by(created_at.desc()) then [0]: any row with the greatest created_at
\* (the order among equal created_at is the database's choice).
MostRecent(S) == {i \in S : \A j \in S : incidents[j].created_at <= incidents[i].created_at}

\* The append without the membership test.
AddServiceAlways(services, svc) ==
    IF svc # NONE THEN Append(services, svc) ELSE services

\* affected_services after "append service_name if set and not present".
AddService(services, svc) ==
    IF svc # NONE /\ \A k \in 1..Len(services) : services[k] # svc
    THEN Append(services, svc)
    ELSE services

NoSummary == [present |-> FALSE, status |-> NONE, citations |-> NONE, next_steps |-> <<>>]

\* Incident(...) of the create branch; created_at defaults to utcnow,
\* resolved_at and closed_at to NULL.
NewIncident(alert) ==
    [status |-> OPEN,
     severity |-> IF alert.severity # NONE THEN alert.severity ELSE "warning",
     assigned_team |-> IF alert.predicted_team # NONE THEN alert.predicted_team
                       ELSE "unassigned",
     affected_services |-> IF alert.service_name # NONE THEN <<alert.service_name>>
                           ELSE <<>>,
     created_at |-> now,
     resolved_at |-> NULL, closed_at |-> NULL,
     summary |-> NoSummary]

\* IncidentAction(incident_id = i, ...): action_type, the "from"/"to" or the
\* "alert_id" of extra_metadata.
Action(i, type, from, to, a) ==
    [incident_id |-> i, action_type |-> type, from |-> from, to |-> to, alert_id |-> a]

\* A write that replaces the incident's log by the new record.
AddActionReplace(act) == [actions EXCEPT ![act.incident_id] = <<act>>]

\* db.add(action); db.commit()
AddAction(act) == [actions EXCEPT ![act.incident_id] = Append(@, act)]

\* An attach branch that also drops the persisted summary of the incident.
AttachAlertDropsSummary(incident, alert) ==
    [incident EXCEPT !.affected_services = AddService(@, alert.service_name),
                     !.summary = NoSummary]

\* The columns of the incident the attach branch and the embedding refresh
\* after it write: updated_at, affected_services and incident_embedding, of
\* which the model keeps affected_services.
AttachAlert(incident, alert) ==
    [incident EXCEPT !.affected_services = AddService(@, alert.service_name)]

\* group_alerts_into_incidents(db, alert) for alert row a with the enriched
\* fields of `alert`: attach to the most recent candidate, else create.
GroupAlertsIntoIncidents(a, alert) ==
    IF RecentIncidents(alert.alert_timestamp) # {}
    THEN \E i \in MostRecent(RecentIncidents(alert.alert_timestamp)) :
            /\ alerts' = [alerts EXCEPT ![a] = [alert EXCEPT !.incident_id = i]]
            /\ incidents' = [incidents EXCEPT ![i] = AttachAlert(@, alert)]
            /\ actions' = AddAction(Action(i, "alert_added", NONE, NONE, a))
    ELSE /\ incidents' = Append(incidents, NewIncident(alert))
         /\ alerts' = [alerts EXCEPT
                ![a] = [alert EXCEPT !.incident_id = Len(incidents) + 1]]
         /\ actions' = Append(actions,
                <<Action(Len(incidents) + 1, "status_change", NONE, NONE, a)>>)

\* One run of the process_alert task for a queued alert id: classification,
\* entity extraction, commit, grouping.
ProcessAlert(a, cls, svc) ==
    /\ a \in AlertIds
    /\ queue[a] > 0
    /\ queue' = [queue EXCEPT ![a] = @ - 1]
    /\ GroupAlertsIntoIncidents(a, ExtractEntities(Classify(alerts[a], cls), svc))
    /\ UNCHANGED <<reqs, patchResp, now, chat, tasks, summ, retr>>

\* ---------------------------------------------------- status endpoint
\* A transition table that lets an open incident be resolved directly.
ALLOWED_TRANSITIONS_Skip ==
    [s \in IncidentStatus |->
        CASE s = OPEN -> {INVESTIGATING, RESOLVED}
          [] s = INVESTIGATING -> {RESOLVED}
          [] s = RESOLVED -> {CLOSED}
          [] s = CLOSED -> {}]

ALLOWED_TRANSITIONS ==
    [s \in IncidentStatus |->
        CASE s = OPEN -> {INVESTIGATING}
          [] s = INVESTIGATING -> {RESOLVED}
          [] s = RESOLVED -> {CLOSED}
          [] s = CLOSED -> {}]

NoResponse == [code |-> NULL, body |-> NONE, from |-> NONE, to |-> NONE]

\* A 400 whose detail names the two states the wrong way round.
StatusResponseSwapped(i, status) ==
    IF i \notin IncidentIds
    THEN [code |-> 404, body |-> "Incident not found", from |-> NONE, to |-> NONE]
    ELSE IF incidents[i].status = status
    THEN [code |-> 200, body |-> "no_change", from |-> NONE, to |-> NONE]
    ELSE IF status \notin ALLOWED_TRANSITIONS[incidents[i].status]
    THEN [code |-> 400, body |-> "Invalid status transition",
          from |-> status, to |-> incidents[i].status]
    ELSE [code |-> 200, body |-> "updated", from |-> NONE, to |-> status]

\* Response of PATCH /incidents/{incident_id}/status?status=<status>: the status
\* code, the body's "status" (or the error), and for a 400 the two states the
\* detail message names.
StatusResponse(i, status) ==
    IF i \notin IncidentIds
    THEN [code |-> 404, body |-> "Incident not found", from |-> NONE, to |-> NONE]
    ELSE IF incidents[i].status = status
    THEN [code |-> 200, body |-> "no_change", from |-> NONE, to |-> NONE]
    ELSE IF status \notin ALLOWED_TRANSITIONS[incidents[i].status]
    THEN [code |-> 400, body |-> "Invalid status transition",
          from |-> incidents[i].status, to |-> status]
    ELSE [code |-> 200, body |-> "updated", from |-> NONE, to |-> status]

\* incident.resolved_at = utcnow() when the new status is resolved
ResolvedAt(status, old) == IF status = RESOLVED THEN now ELSE old

\* A status update that never stamps closed_at.
ClosedAtNever(status, old) == old

\* incident.closed_at = utcnow() when the new status is closed
ClosedAt(status, old) == IF status = CLOSED THEN now ELSE old

\* PATCH /incidents/{incident_id}/status?status=<status>
UpdateIncidentStatus(i, status) ==
    /\ patchResp' = StatusResponse(i, status)
    /\ IF StatusResponse(i, status).body # "updated"
       THEN UNCHANGED <<incidents, actions>>
       ELSE /\ incidents' = [incidents EXCEPT
                   ![i].status = status,
                   ![i].resolved_at = ResolvedAt(status, @),
                   ![i].closed_at = ClosedAt(status, @)]
            /\ actions' = AddAction(
                   Action(i, "status_change", incidents[i].status, status, NULL))
    /\ UNCHANGED <<alerts, queue, reqs, now, chat, tasks, summ, retr>>

\* --------------------------------------------------------- summarizer
\* _build_next_steps: one step per condition that holds, and the generic step
\* when none does.
BuildNextSteps(incident, similar, runbook) ==
    LET steps ==
          (IF incident.severity \in {"critical", "error"} THEN <<"page">> ELSE <<>>)
          \o (IF incident.affected_services # <<>> THEN <<"validate">> ELSE <<>>)
          \o (IF similar THEN <<"review_similar">> ELSE <<>>)
          \o (IF runbook THEN <<"check_runbook">> ELSE <<>>)
    IN  IF steps = <<>> THEN <<"gather">> ELSE steps

\* The first alerts of the incident, at most three, which generate_summary
\* cites.
CitedAlerts(i) ==
    LET n == Cardinality({a \in 1..Len(alerts) : alerts[a].incident_id = i})
    IN  IF n > 3 THEN 3 ELSE n

\* generate_summary and _build_next_steps for incident i: the header line
\* names the current status; the citations are the alerts and whether similar
\* incidents and runbook chunks were retrieved.
GenerateSummary(i, similar, runbook) ==
    [present |-> TRUE,
     status |-> incidents[i].status,
     citations |-> [alerts |-> CitedAlerts(i), incident |-> similar, runbook |-> runbook],
     next_steps |-> BuildNextSteps(incidents[i], similar, runbook)]

\* A cache test that also wants the summary's header to name the current
\* status.
SummaryCachedFresh(i) ==
    /\ incidents[i].summary.present
    /\ incidents[i].summary.status = incidents[i].status

\* The cache test of the endpoint: incident.summary and incident.next_steps.
SummaryCached(i) ==
    incidents[i].summary.present /\ incidents[i].summary.next_steps # <<>>

\* POST /incidents/{id}/summarize for an existing incident, retrieval finding
\* nothing: the cached values are returned unless force; otherwise
\* summarize_incident persists a summary whose header line names the
\* incident's current status.
SummarizeIncident(i, force) ==
    /\ i \in IncidentIds
    /\ IF SummaryCached(i) /\ ~force
       THEN UNCHANGED incidents
       ELSE incidents' = [incidents EXCEPT ![i].summary = GenerateSummary(i, FALSE, FALSE)]
    /\ UNCHANGED <<alerts, actions, queue, reqs, patchResp, now, chat, tasks, summ, retr>>

\* One summarize request: its position in the handler, the summary columns
\* the session holds uncommitted, and the response once it is answered.
NoSummarize ==
    [pc |-> "idle", incident_id |-> NULL, force |-> FALSE, similar |-> FALSE,
     pending |-> NoSummary, code |-> NULL, cached |-> FALSE, body |-> NoSummary]

\* The response of the endpoint, the request being over.
SummarizeRespond(i, force, code, cached, body) ==
    [NoSummarize EXCEPT !.incident_id = i, !.force = force, !.code = code,
                        !.cached = cached, !.body = body]

\* A rollback that writes the session's pending columns to the row.
RollbackFlushed(i) == [incidents EXCEPT ![i].summary = summ.pending]

\* get_db on an exception: db.rollback() discards what the session holds.
Rollback(i) == incidents

\* The endpoint up to the call of summarize_incident: 404 for an unknown id,
\* the cached values unless force, else the summarization starts.
SummarizeBegin(i, force) ==
    /\ summ.pc = "idle"
    /\ summ' = IF i \notin IncidentIds
               THEN SummarizeRespond(i, force, 404, FALSE, NoSummary)
               ELSE IF SummaryCached(i) /\ ~force
               THEN SummarizeRespond(i, force, 200, TRUE, incidents[i].summary)
               ELSE [NoSummarize EXCEPT !.pc = "embed", !.incident_id = i, !.force = force]
    /\ UNCHANGED <<alerts, incidents, actions, queue, reqs, patchResp, now, chat, tasks, retr>>

\* ensure_incident_embedding, ensure_runbook_embeddings and db.flush().
SummarizeEmbed ==
    /\ summ.pc = "embed"
    /\ summ' = [summ EXCEPT !.pc = "similar"]
    /\ UNCHANGED <<alerts, incidents, actions, queue, reqs, patchResp, now, chat, tasks, retr>>

\* find_similar_incidents: whether it returns any incident.
SummarizeSimilar(found) ==
    /\ summ.pc = "similar"
    /\ summ' = [summ EXCEPT !.pc = "runbook", !.similar = found]
    /\ UNCHANGED <<alerts, incidents, actions, queue, reqs, patchResp, now, chat, tasks, retr>>

\* find_similar_runbook_chunks, generate_summary, _build_next_steps and the
\* assignment of the three columns on the session's incident.
SummarizeRunbook(found) ==
    /\ summ.pc = "runbook"
    /\ summ' = [summ EXCEPT
                  !.pc = "persist",
                  !.pending = GenerateSummary(summ.incident_id, summ.similar, found)]
    /\ UNCHANGED <<alerts, incidents, actions, queue, reqs, patchResp, now, chat, tasks, retr>>

\* db.commit() and the response with the recomputed values.
SummarizeCommit ==
    /\ summ.pc = "persist"
    /\ incidents' = [incidents EXCEPT ![summ.incident_id].summary = summ.pending]
    /\ summ' = SummarizeRespond(summ.incident_id, summ.force, 200, FALSE, summ.pending)
    /\ UNCHANGED <<alerts, actions, queue, reqs, patchResp, now, chat, tasks, retr>>

\* An exception at the current step of summarize_incident: it leaves the
\* endpoint uncaught, get_db rolls the session back, the answer is 500.
SummarizeFail ==
    /\ summ.pc \in {"embed", "similar", "runbook", "persist"}
    /\ incidents' = Rollback(summ.incident_id)
    /\ summ' = SummarizeRespond(summ.incident_id, summ.force, 500, FALSE, NoSummary)
    /\ UNCHANGED <<alerts, actions, queue, reqs, patchResp, now, chat, tasks, retr>>

\* ---------------------------------------------------------- retrieval
\* Scores are in thousandths: ONE is the score 1.0.
ONE == 1000

\* Defaults of the retrieval configuration, read from the environment at
\* import.
VECTOR_WEIGHT == 700
KEYWORD_WEIGHT == 300
MIN_SCORE == 100
MIN_KEYWORD_OVERLAP == 50
RERANK_TITLE_BOOST == 80
RERANK_PHRASE_BOOST == 50

DefaultConfig ==
    [vector_weight |-> VECTOR_WEIGHT, keyword_weight |-> KEYWORD_WEIGHT,
     title_boost |-> RERANK_TITLE_BOOST, phrase_boost |-> RERANK_PHRASE_BOOST]

\* A keyword-only deployment: RAG_VECTOR_WEIGHT=0, RAG_KEYWORD_WEIGHT=1.0.
KeywordConfig ==
    [DefaultConfig EXCEPT !.vector_weight = 0, !.keyword_weight = ONE]

Configs == {DefaultConfig, KeywordConfig}

Min(a, b) == IF a < b THEN a ELSE b

\* _hybrid_score under configuration c.
HybridScore(c, vector_score, keyword_score) ==
    (vector_score * c.vector_weight + keyword_score * c.keyword_weight) \div ONE

\* _rerank_boost: whether the query is a substring of the title, of the
\* content.
RerankBoost(c, title_match, content_match) ==
    (IF title_match THEN c.title_boost ELSE 0)
    + (IF content_match THEN c.phrase_boost ELSE 0)

\* ORDER BY key DESC LIMIT limit over the rows S: the sets of rows a query may
\* return, ties broken either way.
TopRows(S, key, limit) ==
    {T \in SUBSET S :
        /\ Cardinality(T) = Min(limit, Cardinality(S))
        /\ \A x \in T, y \in S \ T : key[x] >= key[y]}

\* list.sort(key = score, reverse = True) over the entries S, whose order
\* before the sort is the order of an unordered query: the lists it may give.
SortedByScore(S, score) ==
    {s \in [1..Cardinality(S) -> S] :
        /\ \A i, j \in 1..Cardinality(S) : i # j => s[i] # s[j]
        /\ \A i, j \in 1..Cardinality(S) : i < j => score[s[i]] >= score[s[j]]}

\* list[:limit]
Truncate(s, limit) == [k \in 1..Min(limit, Len(s)) |-> s[k]]

\* The result list: one entry per row of s, with its score.
Scored(s, score) == [k \in 1..Len(s) |-> [id |-> s[k], score |-> score[s[k]]]]

\* find_similar_runbook_chunks over the runbook chunks `corpus` (chunk id ->
\* its scores against the query): the lists it may return. vector_ok and
\* text_ok tell whether the pgvector query and the full-text query run.
FindSimilarRunbookChunks(c, corpus, limit, min_score, vector_ok, text_ok) ==
    LET ids == DOMAIN corpus
        vs == [x \in ids |-> corpus[x].vector_score]
        bm == [x \in ids |-> corpus[x].bm25_score]
        vectorRows == IF vector_ok
                      THEN TopRows({x \in ids : corpus[x].embedding}, vs, limit)
                      ELSE {{}}
        textRows == IF text_ok
                    THEN TopRows({x \in ids : corpus[x].search_tsv}, bm, limit)
                    ELSE {{}}
        boost == [x \in ids |->
                    RerankBoost(c, corpus[x].title_match, corpus[x].content_match)]
        jaccard == [x \in ids |-> HybridScore(c, 0, corpus[x].jaccard) + boost[x]]
        Fallback ==
            {Scored(Truncate(s, limit), jaccard) :
                s \in SortedByScore({x \in ids : jaccard[x] >= min_score}, jaccard)}
        Hybrid(V, B) ==
            LET raw == [x \in ids |->
                          HybridScore(c, IF x \in V THEN vs[x] ELSE 0,
                                         IF x \in B THEN bm[x] ELSE 0) + boost[x]]
                capped == [x \in ids |-> Min(raw[x], ONE)]
            IN  {Scored(Truncate(s, limit), capped) :
                    s \in SortedByScore({x \in V \cup B : raw[x] >= min_score}, capped)}
    IN  UNION {IF V \cup B = {} THEN Fallback ELSE Hybrid(V, B) :
                  V \in vectorRows, B \in textRows}

\* _structured_boost: equal severities, intersecting affected services.
StructuredBoost(same_severity, shared_service) ==
    (IF same_severity THEN 50 ELSE 0) + (IF shared_service THEN 100 ELSE 0)

\* A gate that admits every candidate.
PassesRelevanceAlways(row, min_token_overlap) == TRUE

\* _passes_relevance: a shared affected service, or enough token overlap.
PassesRelevance(row, min_token_overlap) ==
    row.shared_service \/ row.jaccard >= min_token_overlap

\* .filter(Incident.id != incident.id)
OtherIncidents(ids, subject) == ids \ {subject}

\* find_similar_incidents for the incident `subject` over the incidents
\* `corpus` (incident id -> its scores against the subject): the lists it may
\* return. vector_ok tells whether pgvector is installed and its query runs.
FindSimilarIncidents(c, corpus, subject, limit, min_score, vector_ok) ==
    LET others == OtherIncidents(DOMAIN corpus, subject)
        vs == [x \in others |-> corpus[x].vector_score]
        boost == [x \in others |->
                    RerankBoost(c, corpus[x].title_match, corpus[x].content_match)
                    + StructuredBoost(corpus[x].same_severity, corpus[x].shared_service)]
        vector == [x \in others |->
                     Min(HybridScore(c, vs[x], corpus[x].jaccard) + boost[x], ONE)]
        keyword == [x \in others |->
                      Min(HybridScore(c, 0, corpus[x].jaccard) + boost[x], ONE)]
        AdmitVector(x) ==
            PassesRelevance(corpus[x], MIN_KEYWORD_OVERLAP) /\ vector[x] >= min_score
        AdmitKeyword(x) ==
            PassesRelevance(corpus[x], MIN_KEYWORD_OVERLAP) /\ keyword[x] >= min_score
        \* rows in order of distance, the admitted ones appended in that order
        VectorPath ==
            {Scored(SelectSeq(s, AdmitVector), vector) :
                s \in UNION {SortedByScore(T, vs) :
                               T \in TopRows({x \in others : corpus[x].embedding},
                                             vs, limit)}}
        Fallback ==
            {Scored(Truncate(s, limit), keyword) :
                s \in SortedByScore({x \in others : AdmitKeyword(x)}, keyword)}
    IN  IF vector_ok
        THEN {r \in VectorPath : r # <<>>}
             \cup (IF <<>> \in VectorPath THEN Fallback ELSE {})
        ELSE Fallback

\* No retrieval call yet, under configuration c.
NoRetrieval == [op |-> NONE, config |-> DefaultConfig]

\* -------------------------------------------------------------- clock
Tick ==
    /\ now < MaxTime
    /\ now' = now + 1
    /\ UNCHANGED <<alerts, incidents, actions, queue, reqs, patchResp, chat, tasks, summ, retr>>

NoChat == [pc |-> "off"]

\* ------------------------------------------------------- worker pool
Workers == 1..MaxWorkers

\* A worker with no task; after a run, `result` holds what the run returned.
IdleTask ==
    [pc |-> "idle", alert_id |-> NULL, retries |-> 0, countdown |-> NULL,
     branch |-> NONE, incident_id |-> NULL, services |-> <<>>,
     ml_called |-> FALSE, result |-> NONE]

NoTasks == [w \in Workers |-> IdleTask]

\* max_retries of the process_alert task.
MAX_RETRIES == 3

\* A backoff that grows by one second per retry.
Pow2Linear(n) == n + 1

RECURSIVE Pow2(_)
\* 2 ** n
Pow2(n) == IF n = 0 THEN 1 ELSE 2 * Pow2(n - 1)

\* A worker takes a process_alert(a) message from the broker.
TaskStart(w, a) ==
    /\ tasks[w].pc = "idle"
    /\ a \in DOMAIN queue
    /\ queue[a] > 0
    /\ queue' = [queue EXCEPT ![a] = @ - 1]
    /\ tasks' = [tasks EXCEPT ![w] = [IdleTask EXCEPT !.pc = "load", !.alert_id = a]]
    /\ UNCHANGED <<alerts, incidents, actions, reqs, patchResp, now, chat, summ, retr>>

\* process_alert invoked with an id no alert row has.
TaskStartMissing(w) ==
    /\ tasks[w].pc = "idle"
    /\ tasks' = [tasks EXCEPT
           ![w] = [IdleTask EXCEPT !.pc = "load", !.alert_id = Len(alerts) + 1]]
    /\ UNCHANGED <<alerts, incidents, actions, queue, reqs, patchResp, now, chat, summ, retr>>

\* The outer `except Exception` of process_alert: rollback of the open
\* transaction, then self.retry with countdown 2 ** retries, which starts the
\* run again, or re-raises the error once max_retries is used up.
Retry(w) ==
    IF tasks[w].retries < MAX_RETRIES
    THEN [tasks EXCEPT
             ![w] = [IdleTask EXCEPT !.pc = "load", !.alert_id = tasks[w].alert_id,
                                     !.retries = tasks[w].retries + 1,
                                     !.countdown = Pow2(tasks[w].retries)]]
    ELSE [tasks EXCEPT ![w].pc = "idle", ![w].result = "error"]

\* A missing alert noticed only after the classify call.
AlertNotFoundAfterClassify(w) ==
    [tasks EXCEPT ![w].pc = "idle", ![w].result = "failed", ![w].ml_called = TRUE]

\* A 200 answer of POST /classify the classification block raises on with an
\* error outside (RequestException, KeyError, ValueError): a severity that is
\* not a string (AttributeError), a confidence that is not a number (TypeError).
MALFORMED == "malformed"

\* An extract-entities answer with status 200 that the extraction block
\* raises on outside (RequestException, KeyError): a JSON body that is not
\* an object ([] or null), on which entities.get raises AttributeError.
EXTRACT_MALFORMED == "extract_malformed"

\* `if not alert`: the failed result is returned, the run is over.
AlertNotFound(w) ==
    [tasks EXCEPT ![w].pc = "idle", ![w].result = "failed"]

\* Load the alert; missing: return the failed result. Otherwise the
\* classification and entity extraction calls and the commit of the alert; an
\* error the classification block does not catch reaches the outer handler.
TaskEnrich(w, cls, svc) ==
    /\ tasks[w].pc = "load"
    /\ IF tasks[w].alert_id \notin AlertIds
       THEN /\ tasks' = AlertNotFound(w)
            /\ UNCHANGED alerts
       ELSE IF cls = MALFORMED \/ svc = EXTRACT_MALFORMED
       THEN /\ tasks' = Retry(w)
            /\ UNCHANGED alerts
       ELSE /\ alerts' = [alerts EXCEPT ![tasks[w].alert_id] =
                   ExtractEntities(Classify(@, cls), svc)]
            /\ tasks' = [tasks EXCEPT ![w].pc = "query", ![w].ml_called = TRUE]
    /\ UNCHANGED <<incidents, actions, queue, reqs, patchResp, now, chat, summ, retr>>

\* The grouping query: the session loads the candidate rows and the first of
\* them is chosen, or none qualifies.
TaskQuery(w) ==
    /\ tasks[w].pc = "query"
    /\ LET S == RecentIncidents(alerts[tasks[w].alert_id].alert_timestamp)
       IN  IF S # {}
           THEN \E i \in MostRecent(S) :
                   tasks' = [tasks EXCEPT ![w].pc = "attach", ![w].branch = "attach",
                                          ![w].incident_id = i,
                                          ![w].services = incidents[i].affected_services]
           ELSE tasks' = [tasks EXCEPT ![w].pc = "create", ![w].branch = "create"]
    /\ UNCHANGED <<alerts, incidents, actions, queue, reqs, patchResp, now, chat, summ, retr>>

\* Attach branch up to its first commit: alert.incident_id, and the
\* affected_services column written from the list the session loaded when the
\* service was appended to it.
TaskAttach(w) ==
    /\ tasks[w].pc = "attach"
    /\ LET a == tasks[w].alert_id
           i == tasks[w].incident_id
           loaded == tasks[w].services
       IN  /\ alerts' = [alerts EXCEPT ![a].incident_id = i]
           /\ incidents' = [incidents EXCEPT ![i].affected_services =
                  IF AddService(loaded, alerts[a].service_name) # loaded
                  THEN AddService(loaded, alerts[a].service_name)
                  ELSE @]
    /\ tasks' = [tasks EXCEPT ![w].pc = "audit"]
    /\ UNCHANGED <<actions, queue, reqs, patchResp, now, chat, summ, retr>>

\* Create branch up to its first commit: the new incident and the link.
TaskCreate(w) ==
    /\ tasks[w].pc = "create"
    /\ incidents' = Append(incidents, NewIncident(alerts[tasks[w].alert_id]))
    /\ actions' = Append(actions, <<>>)
    /\ alerts' = [alerts EXCEPT ![tasks[w].alert_id].incident_id = Len(incidents) + 1]
    /\ tasks' = [tasks EXCEPT ![w].pc = "audit", ![w].incident_id = Len(incidents) + 1]
    /\ UNCHANGED <<queue, reqs, patchResp, now, chat, summ, retr>>

\* The action row of either branch and its commit.
TaskAudit(w) ==
    /\ tasks[w].pc = "audit"
    /\ actions' = AddAction(Action(tasks[w].incident_id,
                      IF tasks[w].branch = "create" THEN "status_change" ELSE "alert_added",
                      NONE, NONE, tasks[w].alert_id))
    /\ tasks' = [tasks EXCEPT ![w].pc = "embed"]
    /\ UNCHANGED <<alerts, incidents, queue, reqs, patchResp, now, chat, summ, retr>>

\* The embedding refresh, its commit and the success result.
TaskFinish(w) ==
    /\ tasks[w].pc = "embed"
    /\ tasks' = [tasks EXCEPT ![w].pc = "idle", ![w].result = "success"]
    /\ UNCHANGED <<alerts, incidents, actions, queue, reqs, patchResp, now, chat, summ, retr>>

\* The database operation the run is about to make raises.
TaskFail(w) ==
    /\ tasks[w].pc \in {"load", "query", "attach", "create", "audit", "embed"}
    /\ tasks' = Retry(w)
    /\ UNCHANGED <<alerts, incidents, actions, queue, reqs, patchResp, now, chat, summ, retr>>

Init ==
    /\ alerts = <<>>
    /\ incidents = <<>>
    /\ actions = <<>>
    /\ queue = [a \in Requests |-> 0]
    /\ reqs = [r \in Requests |-> IdleReq]
    /\ patchResp = NoResponse
    /\ now = 0
    /\ chat = NoChat
    /\ tasks = NoTasks
    /\ summ = NoSummarize
    /\ retr = NoRetrieval

\* Webhook intake on the HTTP plane, the worker and the clock. The alerts carry
\* no service entity here.
Next ==
    \/ \E r \in Requests, src \in Sources, d \in Deliveries : WebhookBegin(r, src, d)
    \/ \E r \in Requests : WebhookCommit(r)
    \/ \E a \in Requests, cls \in ClassifyResults, svc \in {NONE} :
          ProcessAlert(a, cls, svc)
    \/ Tick

Spec == Init /\ [][Next]_vars

\* The same with a broker that may be unreachable when the handler publishes.
NextIntake ==
    \/ Next
    \/ \E r \in Requests : WebhookPublishFails(r)

SpecIntake == Init /\ [][NextIntake]_vars

\* ------------------------------------------- incident lifecycle plane
\* Natural keys of the alerts intake has committed, in id order.
Keys == <<[source |-> "datadog", external_id |-> "A1"],
          [source |-> "sentry", external_id |-> "A1"],
          [source |-> "datadog", external_id |-> "A2"],
          [source |-> "sentry", external_id |-> "A2"]>>

\* The state intake leaves at minute 0 once MaxRequests deliveries with
\* distinct keys have been answered: every alert committed, unprocessed and
\* queued once, no request in flight. A timestamp is minute 0 (absent field)
\* or the payload's.
InitLifecycle ==
    /\ \E ts \in [Requests -> {0, W, W + 1}] :
          alerts = [a \in Requests |->
                      NewAlert(Keys[a].source, Keys[a].external_id, ts[a])]
    /\ incidents = <<>>
    /\ actions = <<>>
    /\ queue = [a \in Requests |-> 1]
    /\ reqs = [r \in Requests |-> IdleReq]
    /\ patchResp = NoResponse
    /\ now = 0
    /\ chat = NoChat
    /\ tasks = NoTasks
    /\ summ = NoSummarize
    /\ retr = NoRetrieval

\* The worker, the status endpoint and the clock. The classifier is down
\* (fallback classification) and every alert names a service.
NextLifecycle ==
    \/ \E a \in Requests, cls \in {"fail"}, svc \in Services : ProcessAlert(a, cls, svc)
    \/ \E i \in 1..MaxRequests + 1, s \in IncidentStatus : UpdateIncidentStatus(i, s)
    \/ Tick

SpecLifecycle == InitLifecycle /\ [][NextLifecycle]_vars

\* The same with the summarize endpoint.
NextOperator ==
    \/ NextLifecycle
    \/ \E i \in 1..MaxRequests, force \in BOOLEAN : SummarizeIncident(i, force)

SpecOperator == InitLifecycle /\ [][NextOperator]_vars

\* ------------------------------------------------------- redelivery
\* The state intake leaves at minute 0 once MaxRequests deliveries with
\* distinct keys and one duplicate of the first have been answered: every
\* alert committed and unprocessed, the task of the first queued twice. The
\* first payload may carry the tag service:api.
InitRedelivery ==
    /\ \E ts \in [Requests -> {0, W + 1}], tag \in {NONE, "api"} :
          alerts = [a \in Requests |->
                      [NewAlert(Keys[a].source, Keys[a].external_id, ts[a])
                          EXCEPT !.tag_service = IF a = 1 THEN tag ELSE NONE]]
    /\ incidents = <<>>
    /\ actions = <<>>
    /\ queue = [a \in Requests |-> IF a = 1 THEN 2 ELSE 1]
    /\ reqs = [r \in Requests |-> IdleReq]
    /\ patchResp = NoResponse
    /\ now = 0
    /\ chat = NoChat
    /\ tasks = NoTasks
    /\ summ = NoSummarize
    /\ retr = NoRetrieval

\* Answers of the extractor in this plane: it is down, or it names "api".
RedeliveryEntityResults == {EXTRACT_FAIL, "api"}

\* The worker, the status endpoint and the summarize endpoint within minute
\* 0. The classifier is down (fallback classification).
NextRedelivery ==
    \/ \E a \in Requests, cls \in {"fail"}, ext \in RedeliveryEntityResults :
          ProcessAlert(a, cls, ext)
    \/ \E i \in 1..MaxRequests, s \in IncidentStatus : UpdateIncidentStatus(i, s)
    \/ \E i \in 1..1 : SummarizeIncident(i, FALSE)

SpecRedelivery == InitRedelivery /\ [][NextRedelivery]_vars

\* ------------------------------------------------------ summarization
\* The state intake leaves at minute 0 once MaxRequests deliveries with
\* distinct keys and no timestamp field have been answered.
InitSummary ==
    /\ now = 0
    /\ alerts = [a \in Requests |-> NewAlert(Keys[a].source, Keys[a].external_id, now)]
    /\ incidents = <<>>
    /\ actions = <<>>
    /\ queue = [a \in Requests |-> 1]
    /\ reqs = [r \in Requests |-> IdleReq]
    /\ patchResp = NoResponse
    /\ chat = NoChat
    /\ tasks = NoTasks
    /\ summ = NoSummarize
    /\ retr = NoRetrieval

\* The worker, the status endpoint on the first incident and one summarize
\* request at a time, within minute 0.
NextSummary ==
    \/ \E a \in Requests, cls \in ClassifyResults, svc \in Services :
          ProcessAlert(a, cls, svc)
    \/ \E s \in IncidentStatus : UpdateIncidentStatus(1, s)
    \/ \E i \in 1..MaxRequests, force \in BOOLEAN : SummarizeBegin(i, force)
    \/ SummarizeEmbed
    \/ \E found \in BOOLEAN : SummarizeSimilar(found)
    \/ \E found \in BOOLEAN : SummarizeRunbook(found)
    \/ SummarizeCommit
    \/ SummarizeFail

SpecSummary == InitSummary /\ [][NextSummary]_vars

\* ---------------------------------------------------- runbook retrieval
MaxChunks == 2
MaxLimit == 2

ChunkIds == 1..MaxChunks

\* A runbook chunk as the query sees it: whether it has an embedding and its
\* vector score 1/(1 + distance), whether it has a search vector and its
\* ts_rank_cd, its token Jaccard with the query text, and the two substring
\* matches of the rerank.
ChunkRows ==
    {[embedding |-> e.has, vector_score |-> e.score,
      search_tsv |-> t.has, bm25_score |-> t.score,
      jaccard |-> j, title_match |-> tm, content_match |-> cm] :
        e \in {[has |-> FALSE, score |-> 0], [has |-> TRUE, score |-> 500],
               [has |-> TRUE, score |-> ONE]},
        t \in {[has |-> FALSE, score |-> 0], [has |-> TRUE, score |-> 0],
               [has |-> TRUE, score |-> 600], [has |-> TRUE, score |-> 2 * ONE]},
        j \in {0, 200, ONE}, tm \in BOOLEAN, cm \in BOOLEAN}

\* No alert, no incident, no request: only the runbook table matters, and the
\* retrieval configuration the process was started with.
InitRunbooks ==
    /\ alerts = <<>>
    /\ incidents = <<>>
    /\ actions = <<>>
    /\ queue = <<>>
    /\ reqs = [r \in Requests |-> IdleReq]
    /\ patchResp = NoResponse
    /\ now = 0
    /\ chat = NoChat
    /\ tasks = NoTasks
    /\ summ = NoSummarize
    /\ \E c \in Configs : retr = [NoRetrieval EXCEPT !.config = c]

\* The call of find_similar_runbook_chunks with the default floor.
RunbookSearch(corpus, limit, vector_ok, text_ok) ==
    /\ retr.op = NONE
    /\ \E r \in FindSimilarRunbookChunks(retr.config, corpus, limit, MIN_SCORE,
                                         vector_ok, text_ok) :
          retr' = [op |-> "runbook", config |-> retr.config, limit |-> limit,
                   min_score |-> MIN_SCORE,
                   fallback |-> \A x \in DOMAIN corpus :
                                   /\ ~(vector_ok /\ corpus[x].embedding)
                                   /\ ~(text_ok /\ corpus[x].search_tsv),
                   result |-> r]
    /\ UNCHANGED <<alerts, incidents, actions, queue, reqs, patchResp, now, chat, tasks, summ>>

NextRunbooks ==
    \E corpus \in [ChunkIds -> ChunkRows], limit \in 1..MaxLimit,
       vector_ok \in BOOLEAN, text_ok \in BOOLEAN :
          RunbookSearch(corpus, limit, vector_ok, text_ok)

SpecRunbooks == InitRunbooks /\ [][NextRunbooks]_vars

\* ------------------------------------------- similar-incident retrieval
MaxCandidates == 2

\* The subject of the lookup and the other incidents of the table.
SubjectId == 1
CandidateIds == 2..MaxCandidates + 1

\* An incident other than the subject as the lookup sees it: whether it has an
\* embedding and its vector score, the token Jaccard of its text with the
\* subject's, whether it shares an affected service and the severity with the
\* subject, and whether the subject text is a substring of its title.
CandidateRows ==
    {[embedding |-> e.has, vector_score |-> e.score, jaccard |-> j,
      shared_service |-> sh, same_severity |-> sv,
      title_match |-> tm, content_match |-> FALSE] :
        e \in {[has |-> FALSE, score |-> 0], [has |-> TRUE, score |-> 400],
               [has |-> TRUE, score |-> 500]},
        j \in {0, 40, 600}, sh \in BOOLEAN, sv \in BOOLEAN, tm \in BOOLEAN}

\* The subject's own row: distance 0 and full overlap with itself.
SubjectRow ==
    [embedding |-> TRUE, vector_score |-> ONE, jaccard |-> ONE,
     shared_service |-> TRUE, same_severity |-> TRUE,
     title_match |-> FALSE, content_match |-> FALSE]

\* The call of find_similar_incidents with the default floor, for the subject
\* and a table holding it and the candidates.
SimilarSearch(candidates, limit, vector_ok) ==
    /\ retr.op = NONE
    /\ LET corpus == [x \in {SubjectId} \cup CandidateIds |->
                         IF x = SubjectId THEN SubjectRow ELSE candidates[x]]
       IN  \E r \in FindSimilarIncidents(retr.config, corpus, SubjectId, limit,
                                         MIN_SCORE, vector_ok) :
              retr' = [op |-> "similar", config |-> retr.config, limit |-> limit,
                       min_score |-> MIN_SCORE, subject |-> SubjectId,
                       corpus |-> corpus, vector_ok |-> vector_ok, result |-> r]
    /\ UNCHANGED <<alerts, incidents, actions, queue, reqs, patchResp, now, chat, tasks, summ>>

NextSimilar ==
    \E candidates \in [CandidateIds -> CandidateRows], limit \in 1..MaxLimit,
       vector_ok \in BOOLEAN :
          SimilarSearch(candidates, limit, vector_ok)

SpecSimilar == InitRunbooks /\ [][NextSimilar]_vars

\* ------------------------------------------- runbook retrieval, one session
\* The chunk table holds chunks of several sources.
ChunkSources == {"runbooks", "notion"}

\* The rows a query filtered by RunbookChunk.source == source sees.
ChunksOfSource(corpus, sources, source) ==
    [x \in {y \in DOMAIN corpus : sources[y] = source} |-> corpus[x]]

\* How a query of the session ends: it returns its rows; it raises before a
\* statement reaches the server (the session stays usable); or the server
\* rejects the statement or the connection breaks, which leaves the session's
\* PostgreSQL transaction aborted, so that every later statement of the
\* session raises until a rollback.
QueryOutcomes == {"ok", "client_error", "server_error"}

\* find_similar_runbook_chunks on one session: the vector query and the
\* full-text query run inside try blocks that swallow every exception, the
\* query of the Jaccard pass runs outside any try block. The call raises when
\* no candidate was collected and the transaction was aborted on the way.
FindSimilarRunbookChunksInSession(c, corpus, sources, limit, min_score, vector, text) ==
    LET rows == ChunksOfSource(corpus, sources, "runbooks")
        vector_ok == vector = "ok"
        text_ok == vector # "server_error" /\ text = "ok"
        aborted == vector = "server_error" \/ text = "server_error"
        no_candidates == \A x \in DOMAIN rows :
                            /\ ~(vector_ok /\ rows[x].embedding)
                            /\ ~(text_ok /\ rows[x].search_tsv)
    IN  IF no_candidates /\ aborted
        THEN {[raised |-> TRUE, fallback |-> TRUE, result |-> <<>>]}
        ELSE {[raised |-> FALSE, fallback |-> no_candidates, result |-> r] :
                 r \in FindSimilarRunbookChunks(c, rows, limit, min_score,
                                                vector_ok, text_ok)}

\* Chunks as the degraded paths see them: with or without an embedding and a
\* search vector, with some or no token overlap with the query.
DegradeRows ==
    {[embedding |-> e, vector_score |-> IF e THEN 500 ELSE 0,
      search_tsv |-> t, bm25_score |-> IF t THEN 600 ELSE 0,
      jaccard |-> j, title_match |-> tm, content_match |-> FALSE] :
        e \in BOOLEAN, t \in BOOLEAN, j \in {0, ONE}, tm \in BOOLEAN}

\* One call of find_similar_runbook_chunks on a fresh session.
RunbookSearchInSession(corpus, sources, limit, vector, text) ==
    /\ retr.op = NONE
    /\ \E r \in FindSimilarRunbookChunksInSession(retr.config, corpus, sources, limit,
                                                  MIN_SCORE, vector, text) :
          retr' = [op |-> "runbook_session", config |-> retr.config,
                   limit |-> limit, sources |-> sources, vector |-> vector,
                   text |-> text, raised |-> r.raised, fallback |-> r.fallback,
                   corpus |-> corpus,
                   result |-> r.result]
    /\ UNCHANGED <<alerts, incidents, actions, queue, reqs, patchResp, now, chat, tasks, summ>>

NextDegrade ==
    \E corpus \in [ChunkIds -> DegradeRows], sources \in [ChunkIds -> ChunkSources],
       limit \in 1..MaxLimit, vector \in QueryOutcomes, text \in QueryOutcomes :
          RunbookSearchInSession(corpus, sources, limit, vector, text)

SpecDegrade == InitRunbooks /\ [][NextDegrade]_vars

\* ------------------------------------------------ concurrent workers
\* The state intake leaves at minute 0 once MaxAlerts deliveries with distinct
\* keys and no timestamp field have been answered: every alert committed,
\* unprocessed and queued once.
InitWorkers ==
    /\ now = 0
    /\ alerts = [a \in 1..MaxAlerts |->
                   NewAlert(Keys[a].source, Keys[a].external_id, now)]
    /\ incidents = <<>>
    /\ actions = <<>>
    /\ queue = [a \in 1..MaxAlerts |-> 1]
    /\ reqs = [r \in Requests |-> IdleReq]
    /\ patchResp = NoResponse
    /\ chat = NoChat
    /\ tasks = NoTasks
    /\ summ = NoSummarize
    /\ retr = NoRetrieval

\* service_name after extraction and fallback in the worker pool: a service,
\* or none found.
WorkerServices == {NONE, "api", "db"}

\* The worker pool, every run step by step, and the clock. The classifier is
\* down (fallback classification).
NextWorkers ==
    \/ \E w \in Workers, a \in 1..MaxAlerts : TaskStart(w, a)
    \/ \E w \in Workers, cls \in {"fail"}, svc \in WorkerServices : TaskEnrich(w, cls, svc)
    \/ \E w \in Workers : TaskQuery(w)
    \/ \E w \in Workers : TaskAttach(w)
    \/ \E w \in Workers : TaskCreate(w)
    \/ \E w \in Workers : TaskAudit(w)
    \/ \E w \in Workers : TaskFinish(w)
    \/ Tick

SpecWorkers == InitWorkers /\ [][NextWorkers]_vars

\* --------------------------------------------------- runs with retries
\* The state intake leaves at minute 0 once MaxRequests deliveries with
\* distinct keys have been answered; a timestamp is minute 0 or lies more than
\* the window ahead of the clock.
InitRetry ==
    /\ \E ts \in [Requests -> {0, W + 1}] :
          alerts = [a \in Requests |->
                      NewAlert(Keys[a].source, Keys[a].external_id, ts[a])]
    /\ incidents = <<>>
    /\ actions = <<>>
    /\ queue = [a \in Requests |-> 1]
    /\ reqs = [r \in Requests |-> IdleReq]
    /\ patchResp = NoResponse
    /\ now = 0
    /\ chat = NoChat
    /\ tasks = NoTasks
    /\ summ = NoSummarize
    /\ retr = NoRetrieval

\* One worker runs the queued alerts step by step; any database operation of
\* a run may raise, and a run may be started for an id without a row. The
\* classify call fails or is answered with a malformed body.
NextRetry ==
    \/ \E w \in {1}, a \in Requests : TaskStart(w, a)
    \/ \E w \in {1} : TaskStartMissing(w)
    \/ \E w \in {1}, cls \in {"fail", MALFORMED}, svc \in Services :
          TaskEnrich(w, cls, svc)
    \/ \E w \in {1} : TaskQuery(w)
    \/ \E w \in {1} : TaskAttach(w)
    \/ \E w \in {1} : TaskCreate(w)
    \/ \E w \in {1} : TaskAudit(w)
    \/ \E w \in {1} : TaskFinish(w)
    \/ \E w \in {1} : TaskFail(w)
    \/ Tick

SpecRetry == InitRetry /\ [][NextRetry]_vars

\* A started run takes its next step, whether the step succeeds or raises:
\* every call of a run is bounded (5 s HTTP timeouts, task_time_limit).
RunStep(w) ==
    \/ \E cls \in {"fail", MALFORMED}, svc \in Services : TaskEnrich(w, cls, svc)
    \/ TaskQuery(w)
    \/ TaskAttach(w)
    \/ TaskCreate(w)
    \/ TaskAudit(w)
    \/ TaskFinish(w)
    \/ TaskFail(w)

SpecRetryFair == SpecRetry /\ WF_vars(RunStep(1))

\* Two alerts inside one grouping window, the first with a service: tag in
\* its payload or without one, each queued once.
InitExtract ==
    /\ \E tag \in {NONE, "api"} :
          alerts = [a \in Requests |->
                      [NewAlert(Keys[a].source, Keys[a].external_id, 0)
                         EXCEPT !.tag_service = IF a = 1 THEN tag ELSE NONE]]
    /\ incidents = <<>>
    /\ actions = <<>>
    /\ queue = [a \in Requests |-> 1]
    /\ reqs = [r \in Requests |-> IdleReq]
    /\ patchResp = NoResponse
    /\ now = 0
    /\ chat = NoChat
    /\ tasks = NoTasks
    /\ summ = NoSummarize
    /\ retr = NoRetrieval

\* What the extract-entities call of a run can come to: a service name, no
\* entity found, a failure the extraction block catches, or a body it raises
\* on.
ExtractEntityResults == EntityResults \cup {EXTRACT_FAIL, EXTRACT_MALFORMED}

\* One worker runs the queued alerts step by step with the classifier down;
\* the extract-entities call answers or fails in every way, and any database
\* operation of a run may raise.
NextExtract ==
    \/ \E w \in {1}, a \in Requests : TaskStart(w, a)
    \/ \E w \in {1}, svc \in ExtractEntityResults : TaskEnrich(w, "fail", svc)
    \/ \E w \in {1} : TaskQuery(w)
    \/ \E w \in {1} : TaskAttach(w)
    \/ \E w \in {1} : TaskCreate(w)
    \/ \E w \in {1} : TaskAudit(w)
    \/ \E w \in {1} : TaskFinish(w)
    \/ \E w \in {1} : TaskFail(w)

SpecExtract == InitExtract /\ [][NextExtract]_vars

\* ------------------------------------------------------- chat stream
\* Texts are sequences of characters. A generator delta is a non-empty text
\* (the fallback windows and the provider deltas are never empty).
DeltaTexts == {<<"x">>, <<" ">>, <<" ", "x">>}

RECURSIVE Join(_)
\* "".join(chunks)
Join(chunks) == IF chunks = <<>> THEN <<>> ELSE Head(chunks) \o Join(Tail(chunks))

RECURSIVE Strip(_)
\* str.strip(): leading and trailing blanks removed
Strip(text) ==
    IF text = <<>> THEN <<>>
    ELSE IF Head(text) = " " THEN Strip(Tail(text))
    ELSE IF text[Len(text)] = " " THEN Strip(SubSeq(text, 1, Len(text) - 1))
    ELSE text

\* An emptiness check on the joined deltas as they came.
NoContentUnstripped(chunks) == Join(chunks) = <<>>

\* not "".join(chunks).strip(): the deltas hold nothing but blanks.
NoContent(chunks) == Strip(Join(chunks)) = <<>>

\* _sse(event, data): the event name and the data fields the stream uses.
Sse(event, status, text, ok) ==
    [event |-> event, status |-> status, text |-> text, ok |-> ok, id |-> NULL]

\* The "id" field of the assistant_delta and assistant events of a block.
WithMessageId(block, id) ==
    [k \in 1..Len(block) |->
        IF block[k].event \in {"assistant_delta", "assistant"}
        THEN [block[k] EXCEPT !.id = id]
        ELSE block[k]]

\* The values uuid.uuid4() can return.
MaxStreams == 2
Uuids == 1..MaxStreams

\* A generator of ids that may return a value again.
Uuid4Reused(issued) == Uuids

\* uuid.uuid4() after it has returned the values of `issued`: a value it has
\* not returned before.
Uuid4(issued) == Uuids \ issued

ToolEvent(status) == Sse("tool", status, <<>>, FALSE)

\* An except block that reports success.
ExceptHandlerOk(message) ==
    <<ToolEvent("failed"), Sse("error", message, <<>>, FALSE), Sse("done", NONE, <<>>, TRUE)>>

\* An except block that skips the failed tool event.
ExceptHandlerNoTool(message) ==
    <<Sse("error", message, <<>>, FALSE), Sse("done", NONE, <<>>, FALSE)>>

\* The yields of the except block.
ExceptHandler(message) ==
    <<ToolEvent("failed"), Sse("error", message, <<>>, FALSE), Sse("done", NONE, <<>>, FALSE)>>

\* A success path that closes the tool before the assistant event.
SuccessTailToolFirst(content) ==
    <<ToolEvent("done"), Sse("assistant", NONE, content, FALSE), Sse("done", NONE, <<>>, TRUE)>>

\* The yields after the delta loop of a stream with content.
SuccessTail(content) ==
    <<Sse("assistant", NONE, content, FALSE), ToolEvent("done"), Sse("done", NONE, <<>>, TRUE)>>

\* The generator runs into a block of yields: the first is emitted now, the
\* rest when the consumer asks for more.
EmitBlock(stream, block) ==
    chat' = [stream EXCEPT !.pc = "tail",
                           !.events = Append(@, Head(block)),
                           !.pending = Tail(block)]

\* The incident_id query parameter of the stream.
ChatIncident == 1

\* build_chat_context -> summarize_incident: the summary is regenerated and
\* committed on the incident row.
BuildChatContext ==
    [incidents EXCEPT ![ChatIncident].summary =
        GenerateSummary(ChatIncident, FALSE, FALSE)]

\* First resumption of event_stream(): the running tool event.
ChatStart ==
    /\ chat.pc = "init"
    /\ chat' = [chat EXCEPT !.pc = "running",
                            !.events = Append(@, ToolEvent("running"))]
    /\ UNCHANGED pipelineVars

\* Resumption inside the try block up to the next yield: the message id and
\* the context build on the first one, then the delta loop, the join and the
\* emptiness check.
ChatResume ==
    /\ chat.pc \in {"running", "delta"}
    /\ \E id \in IF chat.pc = "running" THEN Uuid4(chat.issued) ELSE {chat.message_id} :
          LET stream == [chat EXCEPT !.message_id = id, !.issued = @ \cup {id}]
          IN  IF chat.pc = "running" /\ chat.ctx_fails
              THEN EmitBlock(stream, ExceptHandler("context"))
              ELSE IF Len(chat.chunks) < Len(chat.deltas)
              THEN chat' = [stream EXCEPT
                       !.pc = "delta",
                       !.chunks = Append(@, chat.deltas[Len(chat.chunks) + 1]),
                       !.events = @ \o WithMessageId(
                                    <<Sse("assistant_delta", NONE,
                                          chat.deltas[Len(chat.chunks) + 1], FALSE)>>, id)]
              ELSE IF chat.gen_fails
              THEN EmitBlock(stream, ExceptHandler("stream"))
              ELSE IF NoContent(chat.chunks)
              THEN EmitBlock(stream, ExceptHandler("LLM stream returned no content"))
              ELSE EmitBlock(stream,
                             WithMessageId(SuccessTail(Strip(Join(chat.chunks))), id))
    /\ incidents' = IF chat.pc = "running" /\ ~chat.ctx_fails
                     THEN BuildChatContext
                     ELSE incidents
    /\ UNCHANGED <<alerts, actions, queue, reqs, patchResp, now, tasks, summ, retr>>

\* Resumption after the loop: the next yield of the current block, or the end
\* of the generator.
ChatTail ==
    /\ chat.pc = "tail"
    /\ IF chat.pending # <<>>
       THEN chat' = [chat EXCEPT !.events = Append(@, Head(chat.pending)),
                                 !.pending = Tail(chat.pending)]
       ELSE chat' = [chat EXCEPT !.pc = "end"]
    /\ UNCHANGED pipelineVars

\* A generator whose except block also runs when it is closed, yielding the
\* failed tool event.
ChatDisconnectCaught ==
    /\ chat.pc \in {"running", "delta", "tail"}
    /\ chat' = [chat EXCEPT !.pc = "cancelled", !.pending = <<>>,
                            !.events = Append(@, ToolEvent("failed"))]
    /\ UNCHANGED pipelineVars

\* The client goes away while the generator is suspended at a yield: the
\* generator is closed there (GeneratorExit is not an Exception).
ChatDisconnect ==
    /\ chat.pc \in {"running", "delta", "tail"}
    /\ chat' = [chat EXCEPT !.pc = "cancelled", !.pending = <<>>]
    /\ UNCHANGED pipelineVars

RECURSIVE SeqsUpTo(_, _)
\* Sequences over S of length at most n.
SeqsUpTo(S, n) ==
    IF n = 0 THEN {<<>>}
    ELSE SeqsUpTo(S, n - 1) \cup
         {Append(q, x) : q \in {p \in SeqsUpTo(S, n - 1) : Len(p) = n - 1}, x \in S}

\* A stream before its first event. The inputs: whether build_chat_context
\* raises, the deltas the generator yields, and whether it raises after the
\* last of them; `issued` are the ids uuid4 has returned to earlier streams
\* and `earlier` the message ids the events of earlier streams carried.
NewStream(ctx, gen, ds, issued, earlier) ==
    [pc |-> "init", ctx_fails |-> ctx, deltas |-> ds, gen_fails |-> gen,
     chunks |-> <<>>, pending |-> <<>>, events |-> <<>>,
     message_id |-> NULL, issued |-> issued, earlier |-> earlier]

\* The message ids the events of the stream carry.
CarriedIds(events) ==
    {events[k].id : k \in {j \in 1..Len(events) : events[j].id # NULL}}

\* The next GET /chat/stream, once the stream before it is over.
ChatOpen(ctx, gen, ds) ==
    /\ chat.pc \in {"end", "cancelled"}
    /\ Cardinality(chat.issued) < MaxStreams
    /\ ctx => (~gen /\ ds = <<>>)
    /\ chat' = NewStream(ctx, gen, ds, chat.issued,
                         chat.earlier \cup CarriedIds(chat.events))
    /\ UNCHANGED pipelineVars

\* The alert of the incident the stream is about, as the worker left it.
ChatAlert ==
    [ExtractEntities(Classify(NewAlert("datadog", "A1", 0), "fail"), "api") EXCEPT
        !.incident_id = ChatIncident]

\* A stream before its first event, at minute 0, for the incident the worker
\* opened for one delivered alert. The inputs: whether build_chat_context
\* raises, the deltas the generator yields, and whether it raises after the
\* last of them.
InitChat ==
    /\ now = 0
    /\ alerts = <<ChatAlert>>
    /\ incidents = <<NewIncident(ChatAlert)>>
    /\ actions = <<<<Action(ChatIncident, "status_change", NONE, NONE, 1)>>>>
    /\ queue = [a \in Requests |-> 0]
    /\ reqs = [r \in Requests |-> IdleReq]
    /\ patchResp = NoResponse
    /\ tasks = NoTasks
    /\ summ = NoSummarize
    /\ retr = NoRetrieval
    /\ \E ctx \in BOOLEAN, gen \in BOOLEAN, ds \in SeqsUpTo(DeltaTexts, MaxDeltas) :
          /\ ctx => (~gen /\ ds = <<>>)
          /\ chat = NewStream(ctx, gen, ds, {}, {})

NextChat == ChatStart \/ ChatResume \/ ChatTail \/ ChatDisconnect

SpecChat == InitChat /\ [][NextChat]_vars

\* One stream after the other.
NextChats ==
    \/ NextChat
    \/ \E ctx \in BOOLEAN, gen \in BOOLEAN, ds \in SeqsUpTo(DeltaTexts, MaxDeltas) :
          ChatOpen(ctx, gen, ds)

SpecChats == InitChat /\ [][NextChats]_vars

\* ------------------------------------------------- fallback text, chunked
\* The default chunk_size of _iter_chunked.
CHUNK_SIZE == 24

\* The longest fallback text of the model.
MaxText == 50

\* A _iter_chunked that stops before a last window shorter than chunk_size.
IterChunkedWhole(text, chunk_size) ==
    [k \in 1..(Len(text) \div chunk_size) |->
        SubSeq(text, (k - 1) * chunk_size + 1, k * chunk_size)]

\* _iter_chunked(text, chunk_size): the windows text[i:i + chunk_size] for i
\* in range(0, len(text), chunk_size), in order; none for an empty text.
IterChunked(text, chunk_size) ==
    [k \in 1..((Len(text) + chunk_size - 1) \div chunk_size) |->
        SubSeq(text, (k - 1) * chunk_size + 1, Min(k * chunk_size, Len(text)))]

\* The texts _build_assistant_message returns, as far as chunking can tell
\* them apart: a length and characters that differ from their neighbours.
FallbackTexts ==
    {[k \in 1..n |-> IF (k % p) = 0 THEN "x" ELSE " "] : n \in 1..MaxText, p \in 1..3}

\* GET /chat/stream with OPENAI_API_KEY unset, after the context build: the
\* generator has the fallback text and has yielded nothing yet.
InitFallback ==
    /\ now = 0
    /\ alerts = <<ChatAlert>>
    /\ incidents = <<NewIncident(ChatAlert)>>
    /\ actions = <<<<Action(ChatIncident, "status_change", NONE, NONE, 1)>>>>
    /\ queue = [a \in Requests |-> 0]
    /\ reqs = [r \in Requests |-> IdleReq]
    /\ patchResp = NoResponse
    /\ tasks = NoTasks
    /\ summ = NoSummarize
    /\ retr = NoRetrieval
    /\ \E text \in FallbackTexts :
          chat = [pc |-> "fallback", text |-> text, yielded |-> <<>>]

\* stream_assistant_deltas without a provider yields its next window.
FallbackYield ==
    /\ chat.pc = "fallback"
    /\ Len(chat.yielded) < Len(IterChunked(chat.text, CHUNK_SIZE))
    /\ chat' = [chat EXCEPT !.yielded =
                   Append(@, IterChunked(chat.text, CHUNK_SIZE)[Len(chat.yielded) + 1])]
    /\ UNCHANGED pipelineVars

\* The generator returns after its last window.
FallbackReturn ==
    /\ chat.pc = "fallback"
    /\ Len(chat.yielded) = Len(IterChunked(chat.text, CHUNK_SIZE))
    /\ chat' = [chat EXCEPT !.pc = "returned"]
    /\ UNCHANGED pipelineVars

NextFallback == FallbackYield \/ FallbackReturn

SpecFallback == InitFallback /\ [][NextFallback]_vars

\* --------------------------------------------- the incident_embedding column
\* ensure_incident_embedding on the session's incident object: the embedding
\* is computed and assigned, the object is added to the session; nothing is
\* flushed or committed.
EnsureIncidentEmbedding(loaded) == TRUE

\* The column after a request whose session (autoflush off) is closed by
\* get_db without a commit: what was stored before the request.
CloseSession(stored, session) == stored

\* The column after db.commit().
Commit(stored, session) == session

\* One incident as the worker left it, with its embedding or, when the refresh
\* after grouping did not run to its commit, without one. retr holds the
\* incident_embedding column (non-null or null) and the last request that
\* touched it.
InitEmbedding ==
    /\ now = 0
    /\ alerts = <<ChatAlert>>
    /\ incidents = <<NewIncident(ChatAlert)>>
    /\ actions = <<<<Action(ChatIncident, "status_change", NONE, NONE, 1)>>>>
    /\ queue = [a \in Requests |-> 0]
    /\ reqs = [r \in Requests |-> IdleReq]
    /\ patchResp = NoResponse
    /\ chat = NoChat
    /\ tasks = NoTasks
    /\ summ = NoSummarize
    /\ \E e \in BOOLEAN :
          retr = [op |-> NONE, config |-> DefaultConfig,
                  incident_embedding |-> <<e>>, subject |-> NULL,
                  was_null |-> FALSE, query_embedding |-> FALSE, code |-> NULL]

\* GET /incidents/{id}/similar for an existing incident with no other incident
\* in the table: find_similar_incidents computes the embedding when the
\* loaded one is null and queries with it; the handler returns 200 and get_db
\* closes the session.
GetSimilarIncidents(i) ==
    /\ i \in IncidentIds
    /\ LET stored == retr.incident_embedding[i]
           session == IF ~stored THEN EnsureIncidentEmbedding(stored) ELSE stored
       IN  retr' = [retr EXCEPT !.op = "get_similar", !.subject = i,
                                !.was_null = ~stored,
                                !.query_embedding = session,
                                !.incident_embedding[i] = CloseSession(stored, session),
                                !.code = 200]
    /\ UNCHANGED <<alerts, incidents, actions, queue, reqs, patchResp, now, chat, tasks, summ>>

\* POST /incidents/{id}/summarize as far as the column goes: the cached answer
\* reads only; otherwise summarize_incident assigns the embedding before it
\* calls find_similar_incidents and commits it with the summary.
SummarizeIncidentEmbedding(i, force) ==
    /\ i \in IncidentIds
    /\ IF SummaryCached(i) /\ ~force
       THEN /\ UNCHANGED incidents
            /\ retr' = [retr EXCEPT !.op = "summarize", !.subject = i,
                                    !.was_null = ~retr.incident_embedding[i],
                                    !.query_embedding = FALSE, !.code = 200]
       ELSE /\ incidents' = [incidents EXCEPT
                   ![i].summary = GenerateSummary(i, FALSE, FALSE)]
            /\ retr' = [retr EXCEPT
                   !.op = "summarize", !.subject = i,
                   !.was_null = ~retr.incident_embedding[i],
                   !.query_embedding = EnsureIncidentEmbedding(retr.incident_embedding[i]),
                   !.incident_embedding[i] =
                       Commit(@, EnsureIncidentEmbedding(retr.incident_embedding[i])),
                   !.code = 200]
    /\ UNCHANGED <<alerts, actions, queue, reqs, patchResp, now, chat, tasks, summ>>

NextEmbedding ==
    \/ \E i \in 1..MaxRequests : GetSimilarIncidents(i)
    \/ \E i \in 1..MaxRequests, force \in BOOLEAN : SummarizeIncidentEmbedding(i, force)
    \/ \E s \in IncidentStatus : UpdateIncidentStatus(1, s)
    \/ Tick

SpecEmbedding == InitEmbedding /\ [][NextEmbedding]_vars

\* ================================================================ claims

\* C1: after any interleaving of datadog and sentry webhook ingests the alerts
\* table holds at most one Alert for each (source, external_id) pair.
C1_UniqueNaturalKey ==
    \A a, b \in AlertIds :
        (alerts[a].source = alerts[b].source
            /\ alerts[a].external_id = alerts[b].external_id) => a = b

\* Two deliveries of one key both passed the duplicate check before either
\* committed; the constraint rejected the second INSERT.
C1_Witness ==
    \E r1, r2 \in Requests :
        /\ r1 # r2
        /\ reqs[r1].pc = "done" /\ reqs[r2].pc = "done"
        /\ reqs[r1].source = reqs[r2].source
        /\ reqs[r1].external_id = reqs[r2].external_id
        /\ reqs[r1].code = 200 /\ reqs[r2].code = 500
        /\ Len(alerts) = 1

\* C2: ingesting the same webhook payload N times, one after another or
\* concurrently, answers every request 200 with the same alert_id.
C2_SamePayloadSameResponse ==
    \A r1, r2 \in Requests :
        (/\ reqs[r1].pc = "done" /\ reqs[r2].pc = "done"
         /\ reqs[r1].external_id # NONE
         /\ reqs[r1].source = reqs[r2].source
         /\ reqs[r1].external_id = reqs[r2].external_id)
        => (/\ reqs[r1].code = 200 /\ reqs[r2].code = 200
            /\ reqs[r1].alert_id = reqs[r2].alert_id)

\* C3: a webhook whose (source, external_id) already exists is answered with
\* the existing alert's id and changes nothing else: no process_alert work
\* item is enqueued, no alert, incident or action is touched.
C3_DuplicateChangesNothing ==
    [][\A r \in Requests, src \in Sources, d \in Deliveries :
          (/\ d.sig_ok /\ d.json_ok /\ d.id # NONE
           /\ ExistingAlert(src, d.id) # NULL
           /\ WebhookBegin(r, src, d))
          => (/\ reqs'[r].code = 200
              /\ reqs'[r].alert_id = ExistingAlert(src, d.id)
              /\ UNCHANGED <<alerts, incidents, actions, queue>>)]_vars

\* C4: a chat stream that runs to its end emits exactly one done event, as its
\* last event, with ok=true exactly when nothing failed (context build, the
\* delta generator, the emptiness check); no stream holds a second done event
\* or a done{ok:true} after a failed tool event or an error event.
C4_OneTerminalDone ==
    LET ev == chat.events
        dones == {k \in 1..Len(ev) : ev[k].event = "done"}
        blank == \A k \in 1..Len(chat.deltas) :
                     \A c \in 1..Len(chat.deltas[k]) : chat.deltas[k][c] = " "
    IN  /\ Cardinality(dones) <= 1
        /\ \A j, k \in 1..Len(ev) :
              (/\ j < k
               /\ \/ ev[j].event = "error"
                  \/ ev[j].event = "tool" /\ ev[j].status = "failed")
              => ~(ev[k].event = "done" /\ ev[k].ok)
        /\ chat.pc = "end" =>
              /\ dones = {Len(ev)}
              /\ ev[Len(ev)].ok <=> ~(chat.ctx_fails \/ chat.gen_fails \/ blank)
              /\ ev[Len(ev)].ok => ~(chat.ctx_fails \/ chat.gen_fails)

\* A stream that failed after a delta had gone out has run to its end.
C4_Witness ==
    /\ chat.pc = "end"
    /\ chat.gen_fails
    /\ Len(chat.chunks) >= 1
    /\ chat.events[Len(chat.events)].event = "done"

\* C5: if context build or the delta generator raises, also after deltas were
\* emitted, the events after the raise are exactly tool{failed}, error,
\* done{ok:false}, and the stream holds no assistant event, no tool{done} and
\* no done{ok:true}.
C5_FailureTrio ==
    (chat.pc = "end" /\ (chat.ctx_fails \/ chat.gen_fails)) =>
        LET ev == chat.events
            n == Len(chat.deltas)
        IN  /\ Len(ev) = n + 4
            /\ ev[1].event = "tool" /\ ev[1].status = "running"
            /\ \A k \in 1..n :
                  ev[k + 1].event = "assistant_delta" /\ ev[k + 1].text = chat.deltas[k]
            /\ ev[n + 2].event = "tool" /\ ev[n + 2].status = "failed"
            /\ ev[n + 3].event = "error"
            /\ ev[n + 4].event = "done" /\ ~ev[n + 4].ok

\* The generator raised after its last delta and the stream has ended.
C5_Witness ==
    /\ chat.pc = "end"
    /\ chat.gen_fails
    /\ Len(chat.deltas) >= 1
    /\ Len(chat.events) = Len(chat.deltas) + 4

\* C6: a successful chat stream emits tool{running}, one assistant_delta per
\* generator delta in generator order, one assistant event, tool{done},
\* done{ok:true}, and nothing else.
C6_SuccessOrder ==
    LET ev == chat.events
        n == Len(chat.deltas)
    IN  (chat.pc = "end" /\ ev[Len(ev)].ok) =>
            /\ Len(ev) = n + 4
            /\ ev[1].event = "tool" /\ ev[1].status = "running"
            /\ \A k \in 1..n :
                  ev[k + 1].event = "assistant_delta" /\ ev[k + 1].text = chat.deltas[k]
            /\ ev[n + 2].event = "assistant"
            /\ ev[n + 3].event = "tool" /\ ev[n + 3].status = "done"
            /\ ev[n + 4].event = "done"

\* A stream of two deltas has ended with done{ok:true}.
C6_Witness ==
    /\ chat.pc = "end"
    /\ Len(chat.deltas) >= 2
    /\ chat.events[Len(chat.events)].event = "done"
    /\ chat.events[Len(chat.events)].ok

\* C7: every change of an incident's status is one of (open, investigating),
\* (investigating, resolved), (resolved, closed), over any sequence of status
\* requests, alert processing, grouping and summarization; no incident
\* disappears.
C7_StatusDag ==
    [][/\ Len(incidents') >= Len(incidents)
       /\ \A i \in IncidentIds :
             incidents'[i].status # incidents[i].status
             => <<incidents[i].status, incidents'[i].status>> \in
                   {<<OPEN, INVESTIGATING>>, <<INVESTIGATING, RESOLVED>>,
                    <<RESOLVED, CLOSED>>}]_vars

\* An incident went through the whole lifecycle and was summarized on the way.
C7_Witness ==
    \E i \in IncidentIds :
        /\ incidents[i].status = CLOSED
        /\ incidents[i].summary.present
        /\ Len(actions[i]) >= 4

\* C8 as stated: every PATCH whose (current, requested) pair is not one of the
\* three allowed transitions is answered 400 naming both states and changes
\* nothing.
C8_Original ==
    [][\A i \in IncidentIds, s \in IncidentStatus :
          (/\ <<incidents[i].status, s>> \notin
                 {<<OPEN, INVESTIGATING>>, <<INVESTIGATING, RESOLVED>>,
                  <<RESOLVED, CLOSED>>}
           /\ UpdateIncidentStatus(i, s))
          => (/\ patchResp'.code = 400
              /\ patchResp'.from = incidents[i].status /\ patchResp'.to = s
              /\ UNCHANGED <<incidents, actions>>)]_vars

\* C8 amended: a PATCH that asks for a status other than the current one and
\* whose pair is not an allowed transition is answered 400 naming both states;
\* a PATCH that asks for the current status is answered 200 no_change; both
\* leave status, resolved_at, closed_at and the audit log unchanged.
C8_InvalidTransitionRejected ==
    [][\A i \in IncidentIds, s \in IncidentStatus :
          (/\ <<incidents[i].status, s>> \notin
                 {<<OPEN, INVESTIGATING>>, <<INVESTIGATING, RESOLVED>>,
                  <<RESOLVED, CLOSED>>}
           /\ UpdateIncidentStatus(i, s))
          => (/\ IF s = incidents[i].status
                 THEN patchResp'.code = 200 /\ patchResp'.body = "no_change"
                 ELSE /\ patchResp'.code = 400
                      /\ patchResp'.from = incidents[i].status
                      /\ patchResp'.to = s
              /\ UNCHANGED <<incidents, actions>>)]_vars

\* The last PATCH asked to reopen an incident that is under investigation and
\* was refused.
C8_Witness ==
    /\ patchResp.code = 400
    /\ patchResp.from = INVESTIGATING /\ patchResp.to = OPEN
    /\ \E i \in IncidentIds : incidents[i].status = INVESTIGATING

\* C9: for every incident created by grouping and changed only through the
\* status endpoint, resolved_at is set iff the status is resolved or closed,
\* and closed_at is set iff the status is closed.
C9_Timestamps ==
    \A i \in IncidentIds :
        /\ (incidents[i].resolved_at # NULL) <=> (incidents[i].status \in {RESOLVED, CLOSED})
        /\ (incidents[i].closed_at # NULL) <=> (incidents[i].status = CLOSED)

\* An incident was resolved at one minute and closed at a later one.
C9_Witness ==
    \E i \in IncidentIds :
        /\ incidents[i].status = CLOSED
        /\ incidents[i].resolved_at # NULL
        /\ incidents[i].closed_at > incidents[i].resolved_at

\* C10: group_alerts_into_incidents attaches the alert to an existing incident
\* exactly when some open or investigating incident has
\* created_at >= alert_timestamp - 5 minutes (boundary included), and creates
\* a new incident exactly when there is none.
C10_GroupingWindow ==
    [][\A a \in AlertIds, cls \in ClassifyResults, svc \in EntityResults :
          ProcessAlert(a, cls, svc)
          => LET inWindow ==
                     \E i \in IncidentIds :
                         /\ incidents[i].status \in {OPEN, INVESTIGATING}
                         /\ incidents[i].created_at >= alerts[a].alert_timestamp - 5
                 attached ==
                     /\ Len(incidents') = Len(incidents)
                     /\ alerts'[a].incident_id \in IncidentIds
                 created ==
                     /\ Len(incidents') = Len(incidents) + 1
                     /\ alerts'[a].incident_id = Len(incidents) + 1
             IN  /\ inWindow <=> attached
                 /\ ~inWindow <=> created]_vars

\* An alert stamped exactly 5 minutes after an incident's creation was
\* attached to that incident, which another alert had created.
C10_Witness ==
    \E a, b \in AlertIds :
        /\ a # b
        /\ alerts[a].incident_id # NULL
        /\ alerts[b].incident_id = alerts[a].incident_id
        /\ actions[alerts[a].incident_id][1].alert_id = a
        /\ alerts[b].alert_timestamp - 5 = incidents[alerts[a].incident_id].created_at
        /\ \E k \in 1..Len(actions[alerts[a].incident_id]) :
              /\ actions[alerts[a].incident_id][k].action_type = "alert_added"
              /\ actions[alerts[a].incident_id][k].alert_id = b


\* C11: grouping never attaches an alert to an incident that is resolved or
\* closed at the grouping decision; when every incident inside the window is
\* resolved or closed, a new incident is created for the alert.
C11_TerminalExcluded ==
    [][\A a \in AlertIds :
          queue'[a] < queue[a]
          => LET inTime == {i \in IncidentIds :
                              incidents[i].created_at >= alerts[a].alert_timestamp - 5}
             IN  /\ alerts'[a].incident_id \in IncidentIds
                      => incidents[alerts'[a].incident_id].status \in {OPEN, INVESTIGATING}
                 /\ (/\ inTime # {}
                     /\ \A i \in inTime : incidents[i].status \in {RESOLVED, CLOSED})
                      => /\ Len(incidents') = Len(incidents) + 1
                         /\ alerts'[a].incident_id = Len(incidents) + 1]_vars

\* An alert opened an incident of its own although an incident resolved a
\* minute earlier lay inside its window.
C11_Witness ==
    \E b \in AlertIds, i \in IncidentIds :
        /\ alerts[b].incident_id \in IncidentIds
        /\ alerts[b].incident_id # i
        /\ actions[alerts[b].incident_id][1].alert_id = b
        /\ incidents[i].created_at >= alerts[b].alert_timestamp - 5
        /\ incidents[i].resolved_at # NULL
        /\ incidents[i].resolved_at < incidents[alerts[b].incident_id].created_at

\* C12: when several open or investigating incidents lie inside the grouping
\* window, the alert is attached to one with the most recent created_at, and
\* to no other: the link and the alert_added action go to the chosen incident.
C12_MostRecentFirst ==
    [][\A w \in Workers :
          LET a == tasks[w].alert_id
              chosen == tasks'[w].incident_id
          IN  /\ (tasks[w].pc = "query" /\ tasks'[w].pc = "attach")
                   => \A j \in IncidentIds :
                         (/\ incidents[j].status \in {OPEN, INVESTIGATING}
                          /\ incidents[j].created_at >= alerts[a].alert_timestamp - 5)
                         => incidents[j].created_at <= incidents[chosen].created_at
              /\ (tasks[w].pc = "attach" /\ tasks'[w].pc = "audit")
                   => /\ alerts'[a].incident_id = tasks[w].incident_id
                      /\ \A b \in AlertIds \ {a} : alerts'[b] = alerts[b]
              /\ (tasks[w].pc = "audit" /\ tasks[w].branch = "attach"
                                        /\ tasks'[w].pc = "embed")
                   => \A i \in IncidentIds \ {tasks[w].incident_id} :
                         actions'[i] = actions[i]]_vars

\* An alert was linked to the younger of two open incidents inside its window.
C12_Witness ==
    \E w \in Workers, i \in IncidentIds :
        /\ tasks[w].pc = "audit"
        /\ tasks[w].branch = "attach"
        /\ i < tasks[w].incident_id
        /\ alerts[tasks[w].alert_id].incident_id = tasks[w].incident_id
        /\ incidents[i].status = OPEN
        /\ incidents[i].created_at >= alerts[tasks[w].alert_id].alert_timestamp - 5
        /\ incidents[i].created_at < incidents[tasks[w].incident_id].created_at

\* C13: in every reachable state, whatever the sequence and interleaving of
\* alert processing runs, no incident's affected_services holds the same
\* service name twice.
C13_NoDuplicateServices ==
    \A i \in IncidentIds :
        \A k, l \in 1..Len(incidents[i].affected_services) :
            k # l => incidents[i].affected_services[k] # incidents[i].affected_services[l]

\* Two alerts naming the same service are linked to one incident.
C13_Witness ==
    \E a, b \in AlertIds :
        /\ a # b
        /\ alerts[a].incident_id \in IncidentIds
        /\ alerts[b].incident_id = alerts[a].incident_id
        /\ alerts[a].service_name # NONE
        /\ alerts[b].service_name = alerts[a].service_name
        /\ \A w \in Workers : tasks[w].pc = "idle"

\* C14: after any interleaving of workers, every alert attached to an incident
\* with a service_name has that service_name in the incident's
\* affected_services.
C14_NoLostService ==
    \A a \in AlertIds :
        (/\ alerts[a].incident_id \in IncidentIds
         /\ alerts[a].service_name # NONE)
        => \E k \in 1..Len(incidents[alerts[a].incident_id].affected_services) :
              incidents[alerts[a].incident_id].affected_services[k] = alerts[a].service_name

\* C15: two different alerts whose timestamps lie within 5 minutes of each
\* other end up attached to the same incident, also when two workers process
\* them at the same time while no open incident exists: once every run has
\* finished, such alerts share their incident and one incident was created.
C15_SameIncident ==
    (/\ \A w \in Workers : tasks[w].pc = "idle"
     /\ \A a \in DOMAIN queue : queue[a] = 0)
    => /\ \A a, b \in AlertIds :
             (/\ alerts[a].alert_timestamp - alerts[b].alert_timestamp <= 5
              /\ alerts[b].alert_timestamp - alerts[a].alert_timestamp <= 5)
             => alerts[a].incident_id = alerts[b].incident_id
       /\ Len(incidents) = 1

\* C16: every attachment of an alert to an incident writes an alert_added
\* action for that incident: the run that creates the incident leaves it with
\* exactly two actions (status_change, then alert_added), and every later
\* alert grouped into it adds exactly one alert_added.
C16_AttachmentsAudited ==
    [][\A a \in AlertIds :
          queue'[a] < queue[a]
          => LET i == alerts'[a].incident_id
             IN  IF i \notin IncidentIds
                 THEN /\ Len(actions'[i]) = 2
                      /\ actions'[i][1].action_type = "status_change"
                      /\ actions'[i][2].action_type = "alert_added"
                      /\ actions'[i][2].alert_id = a
                 ELSE /\ Len(actions'[i]) = Len(actions[i]) + 1
                      /\ actions'[i][Len(actions'[i])].action_type = "alert_added"
                      /\ actions'[i][Len(actions'[i])].alert_id = a]_vars


\* C17: when the classify call fails in any way (transport error, timeout,
\* non-2xx, missing key, bad value), process_alert sets severity=warning,
\* predicted_team=backend, confidence_score=0.0 and
\* classification_source=fallback_rule, and goes on to grouping; the run that
\* reports success has left the alert with these values and in an incident.
C17_ClassifyFallback ==
    /\ [][\A w \in Workers, cls \in {"fail", MALFORMED}, svc \in Services :
             (TaskEnrich(w, cls, svc) /\ tasks[w].alert_id \in AlertIds)
             => /\ alerts'[tasks[w].alert_id].severity = "warning"
                /\ alerts'[tasks[w].alert_id].predicted_team = "backend"
                /\ alerts'[tasks[w].alert_id].confidence_score = 0
                /\ alerts'[tasks[w].alert_id].classification_source = "fallback_rule"
                /\ tasks'[w].pc = "query"
                /\ tasks'[w].retries = tasks[w].retries]_vars
    /\ [](\A w \in Workers :
             tasks[w].result = "success"
             => /\ alerts[tasks[w].alert_id].classification_source = "fallback_rule"
                /\ alerts[tasks[w].alert_id].incident_id \in IncidentIds)

\* C18: process_alert on an alert_id without a row ends in the failed result,
\* a terminal one: no retry is scheduled, the ML service is not called, and no
\* alert, incident or action is created or changed.
C18_MissingAlertTerminal ==
    [][\A w \in Workers :
          (/\ tasks[w].pc = "load"
           /\ tasks[w].alert_id \notin AlertIds
           /\ tasks'[w] # tasks[w]
           /\ ~TaskFail(w))
          => /\ tasks'[w].pc = "idle"
             /\ tasks'[w].result = "failed"
             /\ tasks'[w].retries = tasks[w].retries
             /\ tasks'[w].countdown = tasks[w].countdown
             /\ ~tasks'[w].ml_called
             /\ alerts' = alerts
             /\ incidents' = incidents
             /\ actions' = actions
             /\ queue' = queue]_vars

\* A run for a missing alert has returned the failed result at its first
\* attempt.
C18_Witness ==
    \E w \in Workers :
        /\ tasks[w].pc = "idle"
        /\ tasks[w].result = "failed"
        /\ tasks[w].alert_id \notin AlertIds
        /\ tasks[w].retries = 0

\* C19: when a step of process_alert raises, the task is retried with a delay
\* of 2^attempt seconds, attempt being the number of retries so far; at most 3
\* retries are made and the failure of the last one is surfaced instead of a
\* success result; every started run ends in success, in the terminal failed
\* result or in the surfaced failure.
C19_BoundedRetry ==
    /\ [](\A w \in Workers :
             /\ tasks[w].retries <= 3
             /\ tasks[w].result = "error" => tasks[w].retries = 3)
    /\ [][\A w \in Workers :
             TaskFail(w)
             => IF tasks[w].retries < 3
                THEN /\ tasks'[w].pc = "load"
                     /\ tasks'[w].alert_id = tasks[w].alert_id
                     /\ tasks'[w].retries = tasks[w].retries + 1
                     /\ tasks'[w].countdown =
                            CASE tasks[w].retries = 0 -> 1
                              [] tasks[w].retries = 1 -> 2
                              [] tasks[w].retries = 2 -> 4
                ELSE /\ tasks'[w].pc = "idle"
                     /\ tasks'[w].result = "error"]_vars
    /\ \A w \in Workers :
          (tasks[w].pc # "idle")
          ~> (tasks[w].pc = "idle" /\ tasks[w].result \in {"success", "failed", "error"})

\* A run was retried three times, the last time after 4 seconds, and its
\* failure was surfaced.
C19_Witness ==
    \E w \in Workers :
        /\ tasks[w].pc = "idle"
        /\ tasks[w].result = "error"
        /\ tasks[w].retries = 3
        /\ tasks[w].countdown = 4

\* C20: if process_alert fails at a step and is retried until it succeeds, the
\* end state of alerts and incidents is that of one failure-free run: the
\* alert is enriched and attached to an incident, and no alert's processing
\* has created more than one incident.
C20_RetryEquivalent ==
    /\ \A w \in Workers :
          tasks[w].result = "success"
          => /\ alerts[tasks[w].alert_id].severity # NONE
             /\ alerts[tasks[w].alert_id].incident_id \in IncidentIds
    /\ Len(incidents) <= Cardinality({a \in AlertIds : alerts[a].severity # NONE})

\* The alert as the webhook committed it, before any processing.
Fresh(alert) ==
    [NewAlert(alert.source, alert.external_id, alert.alert_timestamp)
        EXCEPT !.tag_service = alert.tag_service]

\* The enrichment fields process_alert writes on an alert.
EnrichmentFields(alert) ==
    <<alert.severity, alert.predicted_team, alert.confidence_score,
      alert.classification_source, alert.service_name, alert.entity_source,
      alert.entity_sources>>

\* The classifier and extractor answers under which a first run of the alert
\* produced the enrichment it holds now.
SameAnswers(alert, cls, ext) ==
    /\ alert.incident_id # NULL
    /\ EnrichmentFields(ExtractEntities(Classify(Fresh(alert), cls), ext))
          = EnrichmentFields(alert)

\* C21: a run of process_alert on an alert that is already enriched and
\* attached, with the classifier and the extractor answering as before, leaves
\* every enrichment field of the alert unchanged, and the only record it adds
\* is one alert_added action on the alert's incident.
C21_ReprocessIdempotent ==
    [][\A a \in Requests, cls \in {"fail"}, ext \in RedeliveryEntityResults :
          (ProcessAlert(a, cls, ext) /\ SameAnswers(alerts[a], cls, ext))
          => /\ EnrichmentFields(alerts'[a]) = EnrichmentFields(alerts[a])
             /\ Len(incidents') = Len(incidents)
             /\ actions' = AddAction(
                    Action(alerts[a].incident_id, "alert_added", NONE, NONE, a))]_vars

\* C22: once an alert has been processed it is read-only with respect to its
\* incident: no later step (a redelivered process_alert, the processing of
\* another alert, a status change, a summarization) changes an incident_id
\* that is set.
C22_IncidentIdFrozen ==
    [][\A a \in AlertIds :
          alerts[a].incident_id # NULL
          => alerts'[a].incident_id = alerts[a].incident_id]_vars

\* C23: once a summarize call has persisted a summary for an incident, a POST
\* summarize without force is answered 200 with cached = true and exactly the
\* persisted summary, citations and next steps, and writes nothing; a call
\* with force is not answered from the cache, and when it completes it is
\* answered cached = false with the recomputed values, which replace the
\* persisted ones.
C23_SummaryCache ==
    [][/\ \A i \in IncidentIds :
            (SummarizeBegin(i, FALSE) /\ incidents[i].summary.present)
            => /\ summ'.code = 200 /\ summ'.cached
               /\ summ'.body = incidents[i].summary
               /\ incidents' = incidents
       /\ \A i \in IncidentIds :
            SummarizeBegin(i, TRUE) => summ'.pc = "embed" /\ summ'.code = NULL
       /\ (SummarizeCommit /\ summ.force)
            => /\ summ'.code = 200 /\ ~summ'.cached
               /\ summ'.body = summ.pending /\ summ'.body.present
               /\ incidents'[summ.incident_id].summary = summ'.body]_vars

\* A cached answer for an incident whose status has changed since the summary
\* was written.
C23_Witness ==
    /\ summ.code = 200 /\ summ.cached
    /\ summ.body.present
    /\ summ.body = incidents[summ.incident_id].summary
    /\ summ.body.status # incidents[summ.incident_id].status

C25_RunbookResults ==
    retr.op = "runbook"
    => /\ Len(retr.result) <= retr.limit
       /\ \A k \in 1..Len(retr.result) :
             /\ retr.min_score <= retr.result[k].score
             /\ retr.result[k].score <= ONE
       /\ \A k \in 1..Len(retr.result) - 1 :
             retr.result[k].score >= retr.result[k + 1].score

\* C26: every list find_similar_incidents returns, on the vector path and on
\* the keyword fallback path, has at most `limit` entries, each score within
\* [min_score, 1.0], in non-increasing order of score.
C26_SimilarResults ==
    retr.op = "similar"
    => /\ Len(retr.result) <= retr.limit
       /\ \A k \in 1..Len(retr.result) :
             /\ retr.min_score <= retr.result[k].score
             /\ retr.result[k].score <= ONE
       /\ \A k \in 1..Len(retr.result) - 1 :
             retr.result[k].score >= retr.result[k + 1].score

\* C27: find_similar_incidents never returns the subject incident itself, and
\* never returns a candidate that shares no affected service with the subject
\* and whose token Jaccard overlap with the subject text is below 0.05, on the
\* vector path or on the keyword fallback path.
C27_RelevanceGate ==
    retr.op = "similar"
    => \A k \in 1..Len(retr.result) :
          /\ retr.result[k].id # retr.subject
          /\ \/ retr.corpus[retr.result[k].id].shared_service
             \/ retr.corpus[retr.result[k].id].jaccard >= MIN_KEYWORD_OVERLAP

\* A vector-path result that leaves out a candidate only because of the gate:
\* the candidate is embedded and close, but shares no service and overlaps
\* below the threshold.
C27_Witness ==
    /\ retr.op = "similar" /\ retr.vector_ok
    /\ retr.result # <<>>
    /\ \E x \in DOMAIN retr.corpus \ {retr.subject} :
          /\ retr.corpus[x].embedding
          /\ ~retr.corpus[x].shared_service
          /\ retr.corpus[x].jaccard < MIN_KEYWORD_OVERLAP
          /\ retr.corpus[x].jaccard > 0
          /\ \A k \in 1..Len(retr.result) : retr.result[k].id # x

\* C28: incident actions are append-only: no step of the worker, the status
\* endpoint, the summarizer or the clock updates or deletes an existing
\* record; the log of every incident only grows, by records added at its end.
C28_ActionsAppendOnly ==
    [][/\ Len(actions') >= Len(actions)
       /\ \A i \in IncidentIds :
             /\ Len(actions'[i]) >= Len(actions[i])
             /\ SubSeq(actions'[i], 1, Len(actions[i])) = actions[i]]_vars

\* An incident whose log holds its creation, an attachment and a status
\* change.
C28_Witness ==
    \E i \in IncidentIds :
        /\ Len(actions[i]) >= 3
        /\ \E k \in 1..Len(actions[i]) : actions[i][k].action_type = "alert_added"
        /\ \E k \in 2..Len(actions[i]) : actions[i][k].action_type = "status_change"

C30_RejectedLeavesNothing ==
    [][\A r \in Requests :
          (reqs[r].pc # "done" /\ reqs'[r].pc = "done" /\ reqs'[r].code # 200)
          => (alerts' = alerts /\ queue' = queue)]_vars

\* C31: no failure of the extract-entities call makes process_alert retry or
\* fail: whether the call fails in a way the extraction block catches or is
\* answered with a body the block cannot read, the entity fallback is applied
\* to the alert as classified and the run goes on to grouping with its retry
\* count unchanged.
C31_ExtractFailureFallsBack ==
    [][\A w \in Workers, ext \in {EXTRACT_FAIL, EXTRACT_MALFORMED} :
          (TaskEnrich(w, "fail", ext) /\ tasks[w].alert_id \in AlertIds)
          => /\ alerts'[tasks[w].alert_id] =
                    ExtractEntities(Classify(alerts[tasks[w].alert_id], "fail"),
                                    EXTRACT_FAIL)
             /\ tasks'[w].pc = "query"
             /\ tasks'[w].retries = tasks[w].retries]_vars

\* C32: find_similar_runbook_chunks never raises because the vector query or
\* the full-text query failed: when the vector query fails the list is the
\* ranking of the keyword path alone, when both fail it is the in-memory
\* Jaccard ranking over the chunks with source runbooks; on every path every
\* returned chunk has source runbooks.
C32_RunbookDegrades ==
    retr.op = "runbook_session"
    => LET rows == ChunksOfSource(retr.corpus, retr.sources, "runbooks")
       IN  /\ ~retr.raised
           /\ \A k \in 1..Len(retr.result) :
                 retr.sources[retr.result[k].id] = "runbooks"
           /\ (retr.vector # "ok" /\ retr.text = "ok")
              => retr.result \in FindSimilarRunbookChunks(retr.config, rows, retr.limit,
                                                          MIN_SCORE, FALSE, TRUE)
           /\ (retr.vector # "ok" /\ retr.text # "ok")
              => retr.result \in FindSimilarRunbookChunks(retr.config, rows, retr.limit,
                                                          MIN_SCORE, FALSE, FALSE)


\* C33: attaching an alert to an incident leaves the persisted summary,
\* citations and next steps of every incident as they were, so the cache test
\* of the summarize endpoint still holds for an incident that had a summary,
\* and a non-forced summarize answered as cached returns what the incident
\* row holds, whatever was attached since the summary was written.
C33_AttachKeepsSummary ==
    /\ [][\A a \in AlertIds, cls \in ClassifyResults, svc \in Services :
             ProcessAlert(a, cls, svc)
             => \A i \in IncidentIds :
                   /\ incidents'[i].summary = incidents[i].summary
                   /\ SummaryCached(i) => SummaryCached(i)']_vars
    /\ [](summ.code = 200 /\ summ.cached
            => summ.body = incidents[summ.incident_id].summary)

\* A cached answer for an incident to which an alert was attached after the
\* summary was written: the summary cites one alert, the incident has two.
C33_Witness ==
    /\ summ.code = 200 /\ summ.cached
    /\ summ.body.present
    /\ summ.body.citations.alerts = 1
    /\ CitedAlerts(summ.incident_id) = 2
    /\ summ.body = incidents[summ.incident_id].summary

\* C34: a chat stream whose context build succeeded and whose delta generator
\* ended without raising, having yielded no delta or only blanks, is a failed
\* stream: it never holds an assistant event, a tool{done} or a done{ok:true},
\* and when it has run to its end its last three events are tool{failed},
\* error and done{ok:false}.
C34_EmptyStreamFails ==
    LET ev == chat.events
        n == Len(ev)
        blank == \A k \in 1..Len(chat.deltas) :
                     \A c \in 1..Len(chat.deltas[k]) : chat.deltas[k][c] = " "
    IN  (chat.pc # "off" /\ ~chat.ctx_fails /\ ~chat.gen_fails /\ blank) =>
            /\ \A k \in 1..n :
                  /\ ev[k].event # "assistant"
                  /\ ~(ev[k].event = "tool" /\ ev[k].status = "done")
                  /\ ~(ev[k].event = "done" /\ ev[k].ok)
            /\ chat.pc = "end" =>
                  /\ n = Len(chat.deltas) + 4
                  /\ ev[n - 2].event = "tool" /\ ev[n - 2].status = "failed"
                  /\ ev[n - 1].event = "error"
                  /\ ev[n - 1].status = "LLM stream returned no content"
                  /\ ev[n].event = "done" /\ ~ev[n].ok

\* A stream whose generator yielded one blank delta and then ended has run to
\* its end.
C34_Witness ==
    /\ chat.pc = "end"
    /\ ~chat.ctx_fails /\ ~chat.gen_fails
    /\ chat.deltas = <<<<" ">>>>
    /\ chat.events[2].event = "assistant_delta"
    /\ chat.events[Len(chat.events)].event = "done"

\* C35: when the client disconnects while the stream is suspended at a yield,
\* the stream stops there: the step that cancels it and every step after it
\* add no event, nothing is left pending, and a stream cancelled before its
\* done event never gets one.
C35_CancelStopsStream ==
    /\ [][(chat.pc = "cancelled" \/ chat'.pc = "cancelled")
          => /\ chat'.events = chat.events
             /\ chat'.pending = <<>>
             /\ chat'.pc = "cancelled"]_vars
    /\ [](chat.pc = "cancelled" => chat.pending = <<>>)

\* A stream cancelled inside its except block: the failed tool event went
\* out, the error and done events did not.
C35_Witness ==
    /\ chat.pc = "cancelled"
    /\ Len(chat.events) >= 2
    /\ chat.events[Len(chat.events)].event = "tool"
    /\ chat.events[Len(chat.events)].status = "failed"
    /\ \A k \in 1..Len(chat.events) : chat.events[k].event # "done"

\* C36: without an LLM provider the deltas of stream_assistant_deltas are
\* consecutive windows of the fallback text: none is empty, none is longer
\* than 24 characters, every delta but the last has exactly 24, and once the
\* generator has returned their concatenation is the fallback text.
C36_FallbackWindows ==
    chat.pc \in {"fallback", "returned"} =>
        LET ds == chat.yielded
        IN  /\ \A k \in 1..Len(ds) : Len(ds[k]) >= 1 /\ Len(ds[k]) <= 24
            /\ Join(ds) = SubSeq(chat.text, 1, Len(Join(ds)))
            /\ chat.pc = "returned" =>
                  /\ \A k \in 1..Len(ds) - 1 : Len(ds[k]) = 24
                  /\ Join(ds) = chat.text

\* A text of 50 characters has gone out in three windows, the last of two
\* characters.
C36_Witness ==
    /\ chat.pc = "returned"
    /\ Len(chat.text) = 50
    /\ Len(chat.yielded) = 3
    /\ Len(chat.yielded[3]) = 2

\* C37: when find_similar_incidents is called on a subject whose stored
\* embedding is null, as by GET /incidents/{id}/similar, the embedding is
\* computed and persisted, so after the call the stored incident_embedding of
\* the subject is non-null.
C37_EmbeddingPersisted ==
    (retr.op = "get_similar" /\ retr.was_null)
    => /\ retr.query_embedding
       /\ retr.incident_embedding[retr.subject]

\* C38: after every successful run of process_alert, the first or a repeated
\* one, the provenance of an alert agrees with its entity fields: an entity
\* field has an entry in entity_sources exactly when it is non-null, and
\* entity_source is unknown only when no entity field is set.
C38_ProvenanceConsistent ==
    \A a \in AlertIds :
        alerts[a].entity_source # NONE
        => /\ alerts[a].entity_sources # NONE <=> alerts[a].service_name # NONE
           /\ alerts[a].entity_source = "unknown" => alerts[a].service_name = NONE

\* C39: incident and audit trail are never out of step: whenever no run is
\* under way, every incident has the status_change action of its creation and
\* every alert attached to an incident has an action on that incident naming
\* it, also after a run failed between the two commits of its grouping branch.
C39_AuditInStep ==
    (\A w \in Workers : tasks[w].pc = "idle")
    => /\ \A i \in IncidentIds :
             \E k \in 1..Len(actions[i]) :
                 /\ actions[i][k].action_type = "status_change"
                 /\ actions[i][k].from = NONE
       /\ \A a \in AlertIds :
             alerts[a].incident_id \in IncidentIds
             => \E k \in 1..Len(actions[alerts[a].incident_id]) :
                    actions[alerts[a].incident_id][k].alert_id = a

\* C40: every alert persisted by intake is handed to the processor: in every
\* state reached once the handler that committed an alert has answered, the
\* alert has a process_alert work item in the queue or has been processed by
\* one. (The handler commits, enqueues and answers in one step.)
C40_PersistedIsEnqueued ==
    \A a \in AlertIds :
        queue[a] > 0 \/ alerts[a].classification_source # NONE
====
